---------------------------- MODULE Spec2Model ----------------------------
(***************************************************************************)
(* Player identity resolution and position ranking of                      *)
(* FantasyLeagueStandingsPuller (src/pull_league_data.py).                 *)
(*                                                                         *)
(* Strings that the code takes apart (player names) are sequences of       *)
(* one-character strings; strings the code only compares or looks up in a  *)
(* table (team codes, positions, player ids) are TLA+ strings.  Python's   *)
(* None is 0 for a rank (the builders assign ranks from 1) and a flag in   *)
(* the records that stand for an optional dict.                            *)
(***************************************************************************)
EXTENDS Integers, Sequences, FiniteSets, TLC

VARIABLES
    imports_ok,             \* requests / fuzz_process bound by the module's import block
    sleeper_players,        \* self._sleeper_players
    sleeper_adp_pos_ranks,  \* self._sleeper_adp_pos_ranks
    sleeper_pos_ranks,      \* self._sleeper_pos_ranks
    yahoo_pos_ranks,        \* self._yahoo_pos_ranks
    league,                 \* the Yahoo league behind self.league: its rosters
    players_requests,       \* requests this puller sent to the Sleeper players endpoint
    pull,                   \* the pull_all_standings run of the puller and its position
    last                    \* the last call made on the puller and what it returned

vars == <<imports_ok, sleeper_players, sleeper_adp_pos_ranks, sleeper_pos_ranks,
          yahoo_pos_ranks, league, players_requests, pull, last>>

-----------------------------------------------------------------------------
(* Sequences *)

Range(s) == {s[i] : i \in 1..Len(s)}

SetMax(S) == CHOOSE m \in S : \A x \in S : x <= m

SetMin(S) == CHOOSE m \in S : \A x \in S : m <= x

RECURSIVE Concat(_)
Concat(ss) == IF ss = <<>> THEN <<>> ELSE Head(ss) \o Concat(Tail(ss))

Reverse(s) == [i \in 1..Len(s) |-> s[Len(s) + 1 - i]]

-----------------------------------------------------------------------------
(* _normalize_name *)

UpperChars == <<"A","B","C","D","E","F","G","H","I","J","K","L","M",
                "N","O","P","Q","R","S","T","U","V","W","X","Y","Z">>

LowerChars == <<"a","b","c","d","e","f","g","h","i","j","k","l","m",
                "n","o","p","q","r","s","t","u","v","w","x","y","z">>

DigitChars == {"0","1","2","3","4","5","6","7","8","9"}

WhitespaceChars == {" ", "\t"}

\* str.lower() on one character
LowerChar(c) ==
    IF c \in Range(UpperChars)
    THEN LowerChars[CHOOSE i \in 1..Len(UpperChars) : UpperChars[i] = c]
    ELSE c

ToLower(s) == [i \in 1..Len(s) |-> LowerChar(s[i])]

\* the characters [^a-z0-9\s\.\-] spares
IsAllowed(c) ==
    c \in Range(LowerChars) \cup DigitChars \cup WhitespaceChars \cup {".", "-"}

StripDisallowed(s) == SelectSeq(s, IsAllowed)

\* \w among the characters left after StripDisallowed
IsWordChar(c) == c \in Range(LowerChars) \cup DigitChars

SuffixTokens == { <<"j","r">>, <<"s","r">>, <<"i","i">>, <<"i","i","i">>,
                  <<"i","v">>, <<"v">> }

\* last index of the run of word characters that starts at i
RECURSIVE WordEnd(_, _)
WordEnd(s, i) ==
    IF i < Len(s) /\ IsWordChar(s[i + 1]) THEN WordEnd(s, i + 1) ELSE i

\* re.sub(r"\b(jr|sr|ii|iii|iv|v)\b\.?", "", s), scanning from index i, which
\* is never inside a word: a match is a whole word that is one of the tokens,
\* with the period that follows it when there is one
RECURSIVE RemoveSuffixesFrom(_, _)
RemoveSuffixesFrom(s, i) ==
    IF i > Len(s) THEN <<>>
    ELSE IF IsWordChar(s[i])
         THEN LET j == WordEnd(s, i)
                  w == SubSeq(s, i, j)
              IN  IF w \in SuffixTokens
                  THEN IF j < Len(s) /\ s[j + 1] = "."
                       THEN RemoveSuffixesFrom(s, j + 2)
                       ELSE RemoveSuffixesFrom(s, j + 1)
                  ELSE w \o RemoveSuffixesFrom(s, j + 1)
         ELSE <<s[i]>> \o RemoveSuffixesFrom(s, i + 1)

RemoveSuffixes(s) == RemoveSuffixesFrom(s, 1)

\* re.sub(r"\s+", " ", s)
RECURSIVE CollapseWhitespaceFrom(_, _)
CollapseWhitespaceFrom(s, i) ==
    IF i > Len(s) THEN <<>>
    ELSE IF s[i] \in WhitespaceChars
         THEN IF i > 1 /\ s[i - 1] \in WhitespaceChars
              THEN CollapseWhitespaceFrom(s, i + 1)
              ELSE <<" ">> \o CollapseWhitespaceFrom(s, i + 1)
         ELSE <<s[i]>> \o CollapseWhitespaceFrom(s, i + 1)

CollapseWhitespace(s) == CollapseWhitespaceFrom(s, 1)

\* str.strip()
RECURSIVE Strip(_)
Strip(s) ==
    IF s = <<>> THEN s
    ELSE IF Head(s) \in WhitespaceChars THEN Strip(Tail(s))
    ELSE IF s[Len(s)] \in WhitespaceChars THEN Strip(SubSeq(s, 1, Len(s) - 1))
    ELSE s

\* a version that removes the suffixes before the disallowed characters
NormalizeNameSuffixesFirst(s) ==
    IF s = <<>> THEN <<>>
    ELSE Strip(CollapseWhitespace(StripDisallowed(RemoveSuffixes(ToLower(s)))))

\* a version without s.lower()
NormalizeNameNoLower(s) ==
    IF s = <<>> THEN <<>>
    ELSE Strip(CollapseWhitespace(RemoveSuffixes(StripDisallowed(s))))

NormalizeName(s) ==
    IF s = <<>> THEN <<>>
    ELSE Strip(CollapseWhitespace(RemoveSuffixes(StripDisallowed(ToLower(s)))))

-----------------------------------------------------------------------------
(* _normalize_team *)

\* str(team).upper() on the team codes of the model
TeamUpper(t) ==
    CASE t = "wsh" -> "WSH"
      [] t = "Wsh" -> "WSH"
      [] t = "was" -> "WAS"
      [] t = "dal" -> "DAL"
      [] t = "jax" -> "JAX"
      [] t = "la"  -> "LA"
      [] t = "La"  -> "LA"
      [] t = "oak" -> "OAK"
      [] t = "stl" -> "STL"
      [] t = "sd"  -> "SD"
      [] t = "sD"  -> "SD"
      [] t = "lar" -> "LAR"
      [] t = "kc"  -> "KC"
      [] OTHER     -> t

\* a version that looks the code up as it is written
NormalizeTeamNoUpper(team) ==
    CASE team = "WSH" -> "WAS"
      [] team = "JAX" -> "JAC"
      [] team = "LA"  -> "LAR"
      [] team = "OAK" -> "LV"
      [] team = "STL" -> "LAR"
      [] team = "SD"  -> "LAC"
      [] OTHER        -> TeamUpper(team)

NormalizeTeam(team) ==
    IF team = "" THEN ""
    ELSE LET t == TeamUpper(team)
         IN  CASE t = "WSH" -> "WAS"
               [] t = "JAX" -> "JAC"
               [] t = "LA"  -> "LAR"
               [] t = "OAK" -> "LV"
               [] t = "STL" -> "LAR"
               [] t = "SD"  -> "LAC"
               [] OTHER     -> t

-----------------------------------------------------------------------------
(* Positions *)

\* (x or "").split("/")[0].upper() on the position strings of the model
FirstPosUpper(dp) ==
    CASE dp = "WR/RB" -> "WR"
      [] dp = "wr"    -> "WR"
      [] OTHER        -> dp

\* if pos == "DEF": pos = "DST"
DefToDst(pos) == IF pos = "DEF" THEN "DST" ELSE pos

\* the roster entry's position as every matcher and lookup computes it
EntryPos(dp) == DefToDst(FirstPosUpper(dp))

\* the keys of pos_to_list in _fetch_sleeper_trending_pos_ranks
TrendingPositions == {"QB", "RB", "WR", "TE", "K", "DST"}

\* every position a rank table of the model can have as a key
TablePositions == TrendingPositions \cup {"LB"}

-----------------------------------------------------------------------------
(* Stable sort and rank assignment *)

\* sorted() / list.sort(): the stable sort of s under the strict order
\* Before: element i goes after every element strictly before it and after
\* the equal elements that precede it in s
SortedIndex(s, i, Before(_, _)) ==
    1 + Cardinality({j \in 1..Len(s) : Before(s[j], s[i])})
      + Cardinality({j \in 1..(i - 1) : ~Before(s[i], s[j]) /\ ~Before(s[j], s[i])})

StableSort(s, Before(_, _)) ==
    [k \in 1..Len(s) |-> s[CHOOSE i \in 1..Len(s) : SortedIndex(s, i, Before) = k]]

\* for idx, item in enumerate(items, start=1): rank_map[key] = idx
\* keys is items' keys in order; a later assignment to a key replaces the
\* earlier one; 0 stands for a key that is not in rank_map
AssignRanks(keys, universe) ==
    [k \in universe |->
        IF k \in Range(keys) THEN SetMax({i \in 1..Len(keys) : keys[i] = k}) ELSE 0]

\* the keys of a rank_map
RankedKeys(rank_map) == {k \in DOMAIN rank_map : rank_map[k] # 0}

-----------------------------------------------------------------------------
(* Sleeper player ids and the players endpoint *)

\* player ids, in the order Python compares the strings
PidSeq == <<"1", "2", "3">>

Pids == Range(PidSeq)

PidIndex(pid) == CHOOSE i \in 1..Len(PidSeq) : PidSeq[i] = pid

NoPlayer == [present |-> FALSE, full_name |-> <<>>, position |-> "", team |-> ""]

\* {} and "not fetched yet"
EmptyPlayersMap == [name_to_ids |-> <<>>, id_to_player |-> [pid \in Pids |-> NoPlayer]]

NoPlayers == [cached |-> FALSE, map |-> EmptyPlayersMap]

\* name_to_ids.setdefault(norm, []).append(pid); name_to_ids is the sequence
\* of its items in insertion order
AddToBucket(name_to_ids, norm, pid) ==
    IF \E i \in 1..Len(name_to_ids) : name_to_ids[i].name = norm
    THEN [i \in 1..Len(name_to_ids) |->
            IF name_to_ids[i].name = norm
            THEN [name_to_ids[i] EXCEPT !.ids = Append(@, pid)]
            ELSE name_to_ids[i]]
    ELSE Append(name_to_ids, [name |-> norm, ids |-> <<pid>>])

\* the loop of _fetch_sleeper_players over data.items(); data is the sequence
\* of the response's items [pid, full_name, position, team]
RECURSIVE BuildPlayersMap(_, _)
BuildPlayersMap(data, acc) ==
    IF data = <<>> THEN acc
    ELSE LET p == Head(data)
             norm == NormalizeName(p.full_name)
         IN  IF p.full_name = <<>>
             THEN BuildPlayersMap(Tail(data), acc)
             ELSE BuildPlayersMap(Tail(data),
                    [name_to_ids |-> IF norm # <<>>
                                     THEN AddToBucket(acc.name_to_ids, norm, p.pid)
                                     ELSE acc.name_to_ids,
                     id_to_player |-> [acc.id_to_player EXCEPT ![p.pid] =
                                         [present |-> TRUE, full_name |-> p.full_name,
                                          position |-> p.position, team |-> p.team]]])

\* a version that caches nothing when the request fails
FetchedPlayersRetrying(cur, imp, resp) ==
    IF cur.cached THEN cur
    ELSE IF ~imp THEN [cached |-> TRUE, map |-> EmptyPlayersMap]
    ELSE IF resp.kind # "ok" THEN cur
    ELSE [cached |-> TRUE, map |-> BuildPlayersMap(resp.data, EmptyPlayersMap)]

\* _fetch_sleeper_players: the value of self._sleeper_players after the call,
\* which is also what the call returns; resp is what the players endpoint
\* answers if it is asked
FetchedPlayers(cur, imp, resp) ==
    IF cur.cached THEN cur
    ELSE IF ~imp THEN [cached |-> TRUE, map |-> EmptyPlayersMap]
    ELSE IF resp.kind # "ok" THEN [cached |-> TRUE, map |-> EmptyPlayersMap]
    ELSE [cached |-> TRUE, map |-> BuildPlayersMap(resp.data, EmptyPlayersMap)]

\* str.upper() on the Sleeper position strings of the model
PosUpper(p) ==
    CASE p = "wr"  -> "WR"
      [] p = "def" -> "DEF"
      [] OTHER     -> p

\* (p.get("position") or "").upper() of id_to_player.get(pid) or {}
PlayerPos(map, pid) == PosUpper(map.id_to_player[pid].position)

\* name_to_ids.get(norm, [])
Bucket(map, norm) ==
    IF \E i \in 1..Len(map.name_to_ids) : map.name_to_ids[i].name = norm
    THEN map.name_to_ids[CHOOSE i \in 1..Len(map.name_to_ids) :
                            map.name_to_ids[i].name = norm].ids
    ELSE <<>>

-----------------------------------------------------------------------------
(* Rank tables: position -> key -> rank, 0 for a key without a rank *)

EmptySleeperTable == [pos \in TablePositions |-> [pid \in Pids |-> 0]]

\* a version of __init__ that starts with a table that ranks player "1"
LoadedSleeperTable ==
    [isset |-> TRUE,
     ranks |-> [pos \in TablePositions |->
                  [pid \in Pids |-> IF pos = "WR" /\ pid = "1" THEN 1 ELSE 0]]]

\* a cache attribute that may be None: isset is FALSE for None
NoSleeperTable == [isset |-> FALSE, ranks |-> EmptySleeperTable]

\* "not rank_map" is FALSE
HasRanks(rank_map) == RankedKeys(rank_map) # {}

\* max(rank_map.values()) of a rank_map with ranks
MaxRank(rank_map) == SetMax({rank_map[k] : k \in RankedKeys(rank_map)})

\* (p.get("position") or "").upper() followed by DEF -> DST, as both Sleeper
\* builders compute the position of a player id
BuilderPos(map, pid) == DefToDst(PlayerPos(map, pid))

-----------------------------------------------------------------------------
(* _fetch_sleeper_adp_pos_ranks *)

\* if len(adp_records) >= 300: break
AdpEnough == 300

\* a response's records that pass "pid is None or adp_val is None": adp 0
\* stands for a missing or zero value, which the "or" chain turns into None
ValidAdpItems(resp) ==
    IF resp.kind = "ok" THEN SelectSeq(resp.items, LAMBDA it : it.adp # 0) ELSE <<>>

\* a version of the loop that gives up at the first URL that fails or answers
\* with another status than 200
RECURSIVE CollectAdpUntilFailure(_, _)
CollectAdpUntilFailure(urls, acc) ==
    IF urls = <<>> THEN acc
    ELSE LET r == Head(urls)
             asked == [acc EXCEPT !.requested = @ + 1]
         IN  IF r.kind \in {"raise", "status"} THEN asked
             ELSE LET got == [asked EXCEPT
                                !.records = @ \o ValidAdpItems(r),
                                !.n = @ + Len(ValidAdpItems(r))
                                        + (IF r.kind = "ok" THEN r.filler ELSE 0)]
                  IN  IF got.n >= AdpEnough THEN got
                      ELSE CollectAdpUntilFailure(Tail(urls), got)

\* the loop over the candidate URLs.  A response is [kind, items, filler]:
\* kind "raise" (the request or r.json() raises), "status" (not 200), "notlist"
\* (JSON that is no list) or "ok"; items are the records of the model's player
\* ids and filler counts the records of other players, which no position is
\* known for.  The result is adp_records restricted to the model's ids, its
\* length n, and the number of URLs requested.
RECURSIVE CollectAdp(_, _)
CollectAdp(urls, acc) ==
    IF urls = <<>> THEN acc
    ELSE LET r == Head(urls)
             asked == [acc EXCEPT !.requested = @ + 1]
         IN  IF r.kind \in {"raise", "status"}
             THEN CollectAdp(Tail(urls), asked)
             ELSE LET got == [asked EXCEPT
                                !.records = @ \o ValidAdpItems(r),
                                !.n = @ + Len(ValidAdpItems(r))
                                        + (IF r.kind = "ok" THEN r.filler ELSE 0)]
                  IN  IF got.n >= AdpEnough THEN got
                      ELSE CollectAdp(Tail(urls), got)

AdpRecords(urls) == CollectAdp(urls, [records |-> <<>>, n |-> 0, requested |-> 0])

\* pos_to_list[pos] after the loop over adp_records
AdpPosList(records, map, pos) ==
    SelectSeq(records, LAMBDA it : BuilderPos(map, it.pid) # ""
                                   /\ BuilderPos(map, it.pid) = pos)

\* items.sort(key=lambda x: x[0])
AdpBefore(a, b) == a.adp < b.adp

AdpSortedPids(records, map, pos) ==
    LET items == StableSort(AdpPosList(records, map, pos), AdpBefore)
    IN  [i \in 1..Len(items) |-> items[i].pid]

\* the table the function returns: {} when requests is missing or no record
\* was collected
AdpPosRanks(imp, urls, map) ==
    IF ~imp \/ AdpRecords(urls).n = 0 THEN EmptySleeperTable
    ELSE [pos \in TablePositions |->
            AssignRanks(AdpSortedPids(AdpRecords(urls).records, map, pos), Pids)]

\* the function asks for the players map only when it collected a record
AdpNeedsPlayers(imp, urls) == imp /\ AdpRecords(urls).n > 0

-----------------------------------------------------------------------------
(* _fetch_sleeper_trending_pos_ranks *)

\* a version that keeps one entry per item instead of one per player id
TrendingCountsUnmerged(items, counts) == counts \o items

\* counts[pid] = counts.get(pid, 0) + count, as the sequence of the dict's
\* items in insertion order
RECURSIVE TrendingCounts(_, _)
TrendingCounts(items, counts) ==
    IF items = <<>> THEN counts
    ELSE LET it == Head(items)
         IN  IF \E i \in 1..Len(counts) : counts[i].pid = it.pid
             THEN TrendingCounts(Tail(items),
                    [i \in 1..Len(counts) |->
                        IF counts[i].pid = it.pid
                        THEN [counts[i] EXCEPT !.count = @ + it.count]
                        ELSE counts[i]])
             ELSE TrendingCounts(Tail(items), Append(counts, it))

\* combined: the add list, then the drop list; an endpoint that answers with
\* another status than 200 adds nothing
TrendingCombined(endpoints) ==
    Concat([i \in 1..Len(endpoints) |->
              IF endpoints[i].kind = "ok" THEN endpoints[i].items ELSE <<>>])

\* pos_to_list[pos]
TrendingPosList(endpoints, map, pos) ==
    SelectSeq(TrendingCounts(TrendingCombined(endpoints), <<>>),
              LAMBDA it : map.id_to_player[it.pid].present
                          /\ BuilderPos(map, it.pid) = pos)

\* a version of the sort key without the minus sign: smaller counts first
TrendingBeforeAscending(a, b) ==
    \/ a.count < b.count
    \/ a.count = b.count /\ PidIndex(a.pid) < PidIndex(b.pid)

\* lst.sort(key=lambda x: (-x[1], x[0]))
TrendingBefore(a, b) ==
    \/ a.count > b.count
    \/ a.count = b.count /\ PidIndex(a.pid) < PidIndex(b.pid)

TrendingSortedPids(endpoints, map, pos) ==
    LET lst == StableSort(TrendingPosList(endpoints, map, pos), TrendingBefore)
    IN  [i \in 1..Len(lst) |-> lst[i].pid]

\* the table the function returns: {} when requests is missing or a request
\* raises
TrendingPosRanks(imp, endpoints, map) ==
    IF ~imp \/ \E i \in 1..Len(endpoints) : endpoints[i].kind = "raise"
    THEN EmptySleeperTable
    ELSE [pos \in TablePositions |->
            IF pos \in TrendingPositions
            THEN AssignRanks(TrendingSortedPids(endpoints, map, pos), Pids)
            ELSE [pid \in Pids |-> 0]]

-----------------------------------------------------------------------------
(* Names of the model *)

Name_Abcd    == <<"A","b","c","d">>
Name_AbcdJr  == <<"a","b","c","d"," ","J","r",".">>
Name_Abc     == <<"a","b","c">>
Name_Zz      == <<"z","z">>
Name_Q       == <<"q">>
Name_Jr      == <<"J","r">>

\* raw names a Yahoo player or a Sleeper player can have in the model
RawNames == {Name_Abcd, Name_AbcdJr, Name_Abc, Name_Zz, Name_Q, Name_Jr, <<>>}

\* the keys a table keyed by normalized name can have
NormNames == {NormalizeName(n) : n \in RawNames}

-----------------------------------------------------------------------------
(* _compute_completed_weeks, _collect_all_players_ppg, _build_yahoo_pos_ranks *)

EmptyYahooTable == [pos \in TablePositions |-> [n \in NormNames |-> 0]]

NoYahooTable == [isset |-> FALSE, ranks |-> EmptyYahooTable]

\* a league: weeks = min(target_week, len(league.weeks())), the number of
\* completed weeks; teams = the rosters, each a sequence of players
\* [name, display_position, team, points], points[wk] = -1 when
\* get_points(week_num=wk) returns None or raises
AllLeaguePlayers(lg) == Concat(lg.teams)

\* the weeks whose points count for a player
PlayedWeeks(p, weeks) == {wk \in 1..weeks : p.points[wk] # -1}

RECURSIVE SumPoints(_, _)
SumPoints(p, wks) ==
    IF wks = {} THEN 0
    ELSE LET wk == CHOOSE w \in wks : TRUE
         IN  p.points[wk] + SumPoints(p, wks \ {wk})

\* (avg, last_pts) of one player, avg as the fraction total / games
PlayerStat(p, weeks) ==
    [norm  |-> NormalizeName(p.name),
     total |-> SumPoints(p, PlayedWeeks(p, weeks)),
     games |-> Cardinality(PlayedWeeks(p, weeks)),
     last_pts |-> IF p.points[weeks] # -1 THEN p.points[weeks] ELSE 0]

\* a version of the loop that ends at the first player without a name or
\* without a position ("break" for "continue")
RECURSIVE CollectStatsUntilMalformed(_, _, _, _)
CollectStatsUntilMalformed(players, weeks, pos, stats) ==
    IF players = <<>> THEN stats
    ELSE LET p == Head(players)
             st == PlayerStat(p, weeks)
         IN  IF p.name = <<>> \/ EntryPos(p.display_position) = "" THEN stats
             ELSE IF EntryPos(p.display_position) # pos
             THEN CollectStatsUntilMalformed(Tail(players), weeks, pos, stats)
             ELSE IF \E i \in 1..Len(stats) : stats[i].norm = st.norm
             THEN CollectStatsUntilMalformed(Tail(players), weeks, pos,
                    [i \in 1..Len(stats) |->
                        IF stats[i].norm = st.norm THEN st ELSE stats[i]])
             ELSE CollectStatsUntilMalformed(Tail(players), weeks, pos, Append(stats, st))

\* pos_to_stats.setdefault(pos, {})[norm] = (...): a name seen again keeps its
\* place in the dict and takes the new value
RECURSIVE CollectStats(_, _, _, _)
CollectStats(players, weeks, pos, stats) ==
    IF players = <<>> THEN stats
    ELSE LET p == Head(players)
             st == PlayerStat(p, weeks)
         IN  IF p.name = <<>> \/ EntryPos(p.display_position) = ""
                \/ EntryPos(p.display_position) # pos
             THEN CollectStats(Tail(players), weeks, pos, stats)
             ELSE IF \E i \in 1..Len(stats) : stats[i].norm = st.norm
             THEN CollectStats(Tail(players), weeks, pos,
                    [i \in 1..Len(stats) |->
                        IF stats[i].norm = st.norm THEN st ELSE stats[i]])
             ELSE CollectStats(Tail(players), weeks, pos, Append(stats, st))

\* pos_to_stats[pos].items()
PosStats(lg, pos) == CollectStats(AllLeaguePlayers(lg), lg.weeks, pos, <<>>)

\* avg = (total / games) if games > 0 else 0.0, compared as fractions
AvgGreater(a, b) ==
    LET ga == IF a.games > 0 THEN a.games ELSE 1
        gb == IF b.games > 0 THEN b.games ELSE 1
    IN  a.total * gb > b.total * ga

AvgEqual(a, b) == ~AvgGreater(a, b) /\ ~AvgGreater(b, a)

\* a version of the sort key without the last-week points
YahooBeforeAvgOnly(a, b) == AvgGreater(a, b)

\* sorted(..., key=lambda kv: (kv[1][0], kv[1][1]), reverse=True)
YahooBefore(a, b) ==
    \/ AvgGreater(a, b)
    \/ AvgEqual(a, b) /\ a.last_pts > b.last_pts

\* a version that sorts ascending and reverses the result, which swaps the
\* players with equal keys
YahooAfter(a, b) == YahooBefore(b, a)

YahooSortedNamesByReversal(lg, pos) ==
    LET items == Reverse(StableSort(PosStats(lg, pos), YahooAfter))
    IN  [i \in 1..Len(items) |-> items[i].norm]

YahooSortedNames(lg, pos) ==
    LET items == StableSort(PosStats(lg, pos), YahooBefore)
    IN  [i \in 1..Len(items) |-> items[i].norm]

\* pos_to_rankmap, or {} when no week is completed
YahooPosRanks(lg) ==
    IF lg.weeks = 0 THEN EmptyYahooTable
    ELSE [pos \in TablePositions |-> AssignRanks(YahooSortedNames(lg, pos), NormNames)]

-----------------------------------------------------------------------------
(* rapidfuzz.process.extractOne(norm, choices, score_cutoff=85) *)

FuzzyCutoff == 85

\* length of a longest common subsequence of a[1..i] and b[1..j]
RECURSIVE Lcs(_, _, _, _)
Lcs(a, b, i, j) ==
    IF i = 0 \/ j = 0 THEN 0
    ELSE IF a[i] = b[j] THEN 1 + Lcs(a, b, i - 1, j - 1)
    ELSE LET x == Lcs(a, b, i - 1, j)
             y == Lcs(a, b, i, j - 1)
         IN  IF x >= y THEN x ELSE y

\* the score of the default scorer is at least the cutoff.  On the names of
\* the model (one word each, either of similar length or without a common
\* letter) the scorer is the Indel ratio 100 * 2 * lcs / (len(a) + len(b));
\* an empty string scores 0
ScoresAtLeastCutoff(a, b) ==
    /\ a # <<>>
    /\ b # <<>>
    /\ 200 * Lcs(a, b, Len(a), Len(b)) >= FuzzyCutoff * (Len(a) + Len(b))

\* the score of a against b is greater than its score against c
ScoresHigher(a, b, c) ==
    Lcs(a, b, Len(a), Len(b)) * (Len(a) + Len(c))
        > Lcs(a, c, Len(a), Len(c)) * (Len(a) + Len(b))

\* a version without score_cutoff: the best-scoring choice, whatever its score
ExtractOneNoCutoff(norm, choices) ==
    LET best == {i \in 1..Len(choices) :
                   \A j \in 1..Len(choices) : ~ScoresHigher(norm, choices[j], choices[i])}
    IN  IF best = {} THEN 0 ELSE SetMin(best)

\* the index in choices of the match extractOne returns, 0 for None: the
\* first of the best-scoring choices, if it reaches the cutoff
ExtractOne(norm, choices) ==
    LET ok == {i \in 1..Len(choices) :
                 /\ ScoresAtLeastCutoff(norm, choices[i])
                 /\ \A j \in 1..Len(choices) : ~ScoresHigher(norm, choices[j], choices[i])}
    IN  IF ok = {} THEN 0 ELSE SetMin(ok)

\* list(name_to_ids.keys())
IndexKeys(map) == [i \in 1..Len(map.name_to_ids) |-> map.name_to_ids[i].name]

-----------------------------------------------------------------------------
(* _match_sleeper_adp_rank, _match_sleeper_trending_rank *)

\* table.get(pos): the rank_map of a position, empty for a position that is
\* no key
RankMapOf(table, pos) ==
    IF table.isset /\ pos \in TablePositions THEN table.ranks[pos] ELSE [pid \in Pids |-> 0]

\* a version of the guard that runs the fuzzy lookup whatever the exact bucket
\* holds
FuzzyAlways(map, imp, norm) == imp

\* the exact bucket is empty and fuzz_process is there: the fuzzy lookup runs
FuzzyConsulted(map, imp, norm) == Bucket(map, norm) = <<>> /\ imp

\* a version in which a raising extractOne leaves the ids of the first key of
\* the index as candidates
CandidateIdsFirstKeyOnRaise(map, imp, norm, fz) ==
    IF ~(Bucket(map, norm) = <<>> /\ imp) THEN Bucket(map, norm)
    ELSE IF fz = "raise"
         THEN IF map.name_to_ids = <<>> THEN <<>> ELSE map.name_to_ids[1].ids
    ELSE LET m == ExtractOne(norm, IndexKeys(map))
         IN  IF m = 0 THEN <<>> ELSE map.name_to_ids[m].ids

\* candidate_ids of a matcher: the exact bucket, else the bucket of the fuzzy
\* match; fz = "raise" when extractOne raises, which the matcher turns into no
\* candidates
CandidateIds(map, imp, norm, fz) ==
    IF ~FuzzyConsulted(map, imp, norm) THEN Bucket(map, norm)
    ELSE IF fz = "raise" THEN <<>>
    ELSE LET m == ExtractOne(norm, IndexKeys(map))
         IN  IF m = 0 THEN <<>> ELSE map.name_to_ids[m].ids

\* ppos == pos and (not team or not pteam or team == pteam)
PassesFilter(map, pid, pos, team) ==
    /\ PlayerPos(map, pid) = pos
    /\ \/ team = ""
       \/ NormalizeTeam(map.id_to_player[pid].team) = ""
       \/ team = NormalizeTeam(map.id_to_player[pid].team)

Filtered(map, ids, pos, team) ==
    SelectSeq(ids, LAMBDA pid : PassesFilter(map, pid, pos, team))

\* use_ids = filtered or candidate_ids
UseIds(map, ids, pos, team) ==
    IF Filtered(map, ids, pos, team) # <<>> THEN Filtered(map, ids, pos, team) ELSE ids

\* a version that returns the rank of the first candidate that has one
RECURSIVE FirstRank(_, _, _)
FirstRank(ids, rank_map, best) ==
    IF ids = <<>> THEN best
    ELSE IF rank_map[Head(ids)] # 0 THEN rank_map[Head(ids)]
    ELSE FirstRank(Tail(ids), rank_map, best)

\* the loop over use_ids: the smallest rank among the ids that have one
RECURSIVE BestRank(_, _, _)
BestRank(ids, rank_map, best) ==
    IF ids = <<>> THEN best
    ELSE LET r == rank_map[Head(ids)]
         IN  IF r # 0 /\ (best = 0 \/ r < best)
             THEN BestRank(Tail(ids), rank_map, r)
             ELSE BestRank(Tail(ids), rank_map, best)

\* the matcher returns before it asks for the players map
MatcherReturnsEarly(table, entry) ==
    \/ ~table.isset
    \/ \A pos \in TablePositions : ~HasRanks(table.ranks[pos])
    \/ entry.name = <<>>
    \/ ~HasRanks(RankMapOf(table, EntryPos(entry.display_position)))

\* the body both matchers share, on the players map the call sees; 0 is None
MatchRank(table, map, imp, entry, fz) ==
    IF MatcherReturnsEarly(table, entry) THEN 0
    ELSE LET pos  == EntryPos(entry.display_position)
             team == NormalizeTeam(entry.editorial_team_abbr)
             ids  == CandidateIds(map, imp, NormalizeName(entry.name), fz)
         IN  BestRank(UseIds(map, ids, pos, team), RankMapOf(table, pos), 0)

\* _match_sleeper_adp_rank(roster_entry)
MatchSleeperAdpRank(adp, map, imp, entry, fz) == MatchRank(adp, map, imp, entry, fz)

\* _match_sleeper_trending_rank(roster_entry)
MatchSleeperTrendingRank(trending, map, imp, entry, fz) ==
    MatchRank(trending, map, imp, entry, fz)

-----------------------------------------------------------------------------
(* _match_sleeper_composite_rank *)

\* the candidate the fallback loop stops at: the first id of the bucket whose
\* position is the entry's; <<>> when there is none
SamePositionIds(map, ids, pos) == SelectSeq(ids, LAMBDA pid : PlayerPos(map, pid) = pos)

\* fallback: max ADP rank of the position + 1, else max trending rank + 1, else
\* None
FallbackRank(adp, trending, pos) ==
    IF HasRanks(RankMapOf(adp, pos)) THEN MaxRank(RankMapOf(adp, pos)) + 1
    ELSE IF HasRanks(RankMapOf(trending, pos)) THEN MaxRank(RankMapOf(trending, pos)) + 1
    ELSE 0

\* the try block after both matchers returned None; a raising extractOne
\* leaves it through "except Exception: pass"
CompositeFallback(adp, trending, map, imp, entry, fz) ==
    LET pos  == EntryPos(entry.display_position)
        norm == NormalizeName(entry.name)
    IN  IF FuzzyConsulted(map, imp, norm) /\ fz = "raise" THEN 0
        ELSE IF SamePositionIds(map, CandidateIds(map, imp, norm, fz), pos) = <<>> THEN 0
        ELSE FallbackRank(adp, trending, pos)

\* versions that prefer the trending rank, or blend the two ranks
CompositeTrendingFirst(adp, trending, map, imp, entry, fz) ==
    IF MatchSleeperTrendingRank(trending, map, imp, entry, fz) # 0
    THEN MatchSleeperTrendingRank(trending, map, imp, entry, fz)
    ELSE IF MatchSleeperAdpRank(adp, map, imp, entry, fz) # 0
    THEN MatchSleeperAdpRank(adp, map, imp, entry, fz)
    ELSE CompositeFallback(adp, trending, map, imp, entry, fz)

MatchSleeperCompositeRank(adp, trending, map, imp, entry, fz) ==
    IF MatchSleeperAdpRank(adp, map, imp, entry, fz) # 0
    THEN MatchSleeperAdpRank(adp, map, imp, entry, fz)
    ELSE IF MatchSleeperTrendingRank(trending, map, imp, entry, fz) # 0
    THEN MatchSleeperTrendingRank(trending, map, imp, entry, fz)
    ELSE CompositeFallback(adp, trending, map, imp, entry, fz)

-----------------------------------------------------------------------------
(* _lookup_yahoo_pos_rank, serialize_roster *)

\* a version of the lookup that does not map DEF to DST
LookupYahooPosRankNoDst(table, entry) ==
    LET pos == FirstPosUpper(entry.display_position)
    IN  IF ~table.isset \/ \A q \in TablePositions : ~HasRanks(table.ranks[q]) THEN 0
        ELSE IF entry.name = <<>> \/ pos = "" THEN 0
        ELSE IF pos \notin TablePositions THEN 0
        ELSE table.ranks[pos][NormalizeName(entry.name)]

\* _lookup_yahoo_pos_rank(roster_entry) on the table the puller holds; 0 is None
LookupYahooPosRank(table, entry) ==
    LET pos == EntryPos(entry.display_position)
    IN  IF ~table.isset \/ \A q \in TablePositions : ~HasRanks(table.ranks[q]) THEN 0
        ELSE IF entry.name = <<>> \/ pos = "" THEN 0
        ELSE IF pos \notin TablePositions THEN 0
        ELSE table.ranks[pos][NormalizeName(entry.name)]

\* a version that sets the table to {} whatever it holds
ClearedYahooTable(table) == [isset |-> TRUE, ranks |-> EmptyYahooTable]

\* if self._yahoo_pos_ranks is None: self._yahoo_pos_ranks = {}
EnsuredYahooTable(table) ==
    IF table.isset THEN table ELSE [isset |-> TRUE, ranks |-> EmptyYahooTable]

\* what can happen to one player of the roster: "ok"; "rank", the lookup of
\* its rank raises; "entry", building its entry raises
PlayerFaults == {"ok", "rank", "entry"}

\* the entry serialize_roster builds for one player, with its pos_rank; a
\* lookup that raises leaves pos_rank None
RosterEntry(table, p, fault) ==
    [name |-> p.name, display_position |-> p.display_position,
     editorial_team_abbr |-> p.team,
     pos_rank |-> IF fault = "rank" THEN 0 ELSE LookupYahooPosRank(table, p)]

\* a version of the loop that stops at the first player whose entry raises
RECURSIVE SerializedRosterUntilFault(_, _, _)
SerializedRosterUntilFault(table, players, faults) ==
    IF players = <<>> \/ Head(faults) = "entry" THEN <<>>
    ELSE <<RosterEntry(table, Head(players), Head(faults))>>
         \o SerializedRosterUntilFault(table, Tail(players), Tail(faults))

\* the roster serialize_roster returns for the players of a team: a player
\* whose entry raises is left out ("continue")
RECURSIVE SerializedRoster(_, _, _)
SerializedRoster(table, players, faults) ==
    IF players = <<>> THEN <<>>
    ELSE (IF Head(faults) = "entry" THEN <<>>
          ELSE <<RosterEntry(table, Head(players), Head(faults))>>)
         \o SerializedRoster(table, Tail(players), Tail(faults))

-----------------------------------------------------------------------------
(* The puller and its operations *)

\* no league: league.standings() is the sequence standings, one item per team
NoLeague == [weeks |-> 0, teams |-> <<>>, standings |-> <<>>]

\* no pull_all_standings run was started on the puller.  phase is "teams"
\* while the run is in its loop over the teams; n counts the runs started;
\* next is the index of the team the loop handles next; returned is
\* league_data["teams"] as the sequence of its items; skipped holds the teams
\* for which pull_team_standings_data returned None
NoPull ==
    [phase |-> "idle", n |-> 0, next |-> 0, build_failed |-> FALSE,
     returned |-> <<>>, skipped |-> {}, aborted |-> FALSE]

\* __init__: every cache attribute is None
FreshPuller ==
    /\ sleeper_players = NoPlayers
    /\ sleeper_adp_pos_ranks = NoSleeperTable
    /\ sleeper_pos_ranks = NoSleeperTable
    /\ yahoo_pos_ranks = NoYahooTable
    /\ players_requests = 0
    /\ pull = NoPull
    /\ last = [op |-> "init"]

\* the import block binds requests and fuzz_process together: all of them, or
\* None for each of them
Init ==
    /\ imports_ok \in BOOLEAN
    /\ league = NoLeague
    /\ FreshPuller

\* the players endpoint is asked by this call
AsksPlayers == ~sleeper_players.cached /\ imports_ok

\* what the players endpoint can answer to a call: nothing is asked of it when
\* the map is cached
AnswersOf(responses) ==
    IF AsksPlayers THEN responses ELSE {[kind |-> "status", data |-> <<>>]}

\* requests.get(url) of _fetch_sleeper_players, counted; called tells whether
\* the operation calls _fetch_sleeper_players at all
RequestsAfter(called) ==
    IF called /\ AsksPlayers THEN players_requests + 1 ELSE players_requests

\* _fetch_sleeper_players()
FetchSleeperPlayers(resp) ==
    /\ sleeper_players' = FetchedPlayers(sleeper_players, imports_ok, resp)
    /\ players_requests' = RequestsAfter(TRUE)
    /\ last' = [op |-> "fetch_sleeper_players", asked |-> AsksPlayers, resp |-> resp]
    /\ UNCHANGED <<imports_ok, sleeper_adp_pos_ranks, sleeper_pos_ranks,
                   yahoo_pos_ranks, league, pull>>

\* _fetch_sleeper_adp_pos_ranks()
FetchSleeperAdpPosRanks(urls, resp) ==
    LET players == IF AdpNeedsPlayers(imports_ok, urls)
                   THEN FetchedPlayers(sleeper_players, imports_ok, resp)
                   ELSE sleeper_players
    IN  /\ sleeper_players' = players
        /\ players_requests' = RequestsAfter(AdpNeedsPlayers(imports_ok, urls))
        /\ last' = [op |-> "fetch_sleeper_adp_pos_ranks", urls |-> urls,
                    requested |-> IF imports_ok THEN AdpRecords(urls).requested ELSE 0,
                    ret |-> AdpPosRanks(imports_ok, urls, players.map)]
        /\ UNCHANGED <<imports_ok, sleeper_adp_pos_ranks, sleeper_pos_ranks,
                       yahoo_pos_ranks, league, pull>>

\* _fetch_sleeper_trending_pos_ranks()
FetchSleeperTrendingPosRanks(endpoints, resp) ==
    LET players == IF imports_ok
                   THEN FetchedPlayers(sleeper_players, imports_ok, resp)
                   ELSE sleeper_players
    IN  /\ sleeper_players' = players
        /\ players_requests' = RequestsAfter(imports_ok)
        /\ last' = [op |-> "fetch_sleeper_trending_pos_ranks", endpoints |-> endpoints,
                    ret |-> TrendingPosRanks(imports_ok, endpoints, players.map)]
        /\ UNCHANGED <<imports_ok, sleeper_adp_pos_ranks, sleeper_pos_ranks,
                       yahoo_pos_ranks, league, pull>>

\* _build_yahoo_pos_ranks() on the league lg
BuildYahooPosRanks(lg) ==
    /\ league' = lg
    /\ yahoo_pos_ranks' = [isset |-> TRUE, ranks |-> YahooPosRanks(lg)]
    /\ last' = [op |-> "build_yahoo_pos_ranks", ret |-> YahooPosRanks(lg)]
    /\ UNCHANGED <<imports_ok, sleeper_players, sleeper_adp_pos_ranks, sleeper_pos_ranks,
                   players_requests, pull>>

\* a new puller object
NewPuller ==
    /\ last.op # "init"
    /\ sleeper_players' = NoPlayers
    /\ sleeper_adp_pos_ranks' = NoSleeperTable
    /\ sleeper_pos_ranks' = NoSleeperTable
    /\ yahoo_pos_ranks' = NoYahooTable
    /\ players_requests' = 0
    /\ pull' = NoPull
    /\ last' = [op |-> "init"]
    /\ league' = NoLeague
    /\ UNCHANGED imports_ok

\* serialize_roster(team), players being team.players() and faults[i] what
\* happens to player i
SerializeRoster(players, faults) ==
    LET table == EnsuredYahooTable(yahoo_pos_ranks)
    IN  /\ yahoo_pos_ranks' = table
        /\ last' = [op |-> "serialize_roster", players |-> players, faults |-> faults,
                    roster |-> SerializedRoster(table, players, faults)]
        /\ UNCHANGED <<imports_ok, sleeper_players, sleeper_adp_pos_ranks,
                       sleeper_pos_ranks, league, players_requests, pull>>

\* self._sleeper_adp_pos_ranks = self._fetch_sleeper_adp_pos_ranks()
LoadSleeperAdpPosRanks(urls, resp) ==
    LET players == IF AdpNeedsPlayers(imports_ok, urls)
                   THEN FetchedPlayers(sleeper_players, imports_ok, resp)
                   ELSE sleeper_players
    IN  /\ sleeper_players' = players
        /\ players_requests' = RequestsAfter(AdpNeedsPlayers(imports_ok, urls))
        /\ sleeper_adp_pos_ranks' =
              [isset |-> TRUE, ranks |-> AdpPosRanks(imports_ok, urls, players.map)]
        /\ last' = [op |-> "load_sleeper_adp_pos_ranks"]
        /\ UNCHANGED <<imports_ok, sleeper_pos_ranks, yahoo_pos_ranks, league, pull>>

\* self._sleeper_pos_ranks = self._fetch_sleeper_trending_pos_ranks()
LoadSleeperPosRanks(endpoints, resp) ==
    LET players == IF imports_ok
                   THEN FetchedPlayers(sleeper_players, imports_ok, resp)
                   ELSE sleeper_players
    IN  /\ sleeper_players' = players
        /\ players_requests' = RequestsAfter(imports_ok)
        /\ sleeper_pos_ranks' =
              [isset |-> TRUE, ranks |-> TrendingPosRanks(imports_ok, endpoints, players.map)]
        /\ last' = [op |-> "load_sleeper_pos_ranks"]
        /\ UNCHANGED <<imports_ok, sleeper_adp_pos_ranks, yahoo_pos_ranks, league, pull>>

\* _match_sleeper_adp_rank(entry), _match_sleeper_trending_rank(entry) and
\* _match_sleeper_composite_rank(entry), called one after the other; fz is how
\* extractOne behaves in these calls.  The composite call asks for the players
\* map whatever the tables hold.
ResolveRank(entry, fz, resp) ==
    LET players == FetchedPlayers(sleeper_players, imports_ok, resp)
    IN  /\ sleeper_players' = players
        /\ players_requests' = RequestsAfter(TRUE)
        /\ last' = [op |-> "resolve_rank", entry |-> entry, fz |-> fz,
                    adp |-> MatchSleeperAdpRank(sleeper_adp_pos_ranks, players.map,
                                                imports_ok, entry, fz),
                    trending |-> MatchSleeperTrendingRank(sleeper_pos_ranks, players.map,
                                                          imports_ok, entry, fz),
                    composite |-> MatchSleeperCompositeRank(sleeper_adp_pos_ranks,
                                      sleeper_pos_ranks, players.map, imports_ok, entry, fz)]
        /\ UNCHANGED <<imports_ok, sleeper_adp_pos_ranks, sleeper_pos_ranks,
                       yahoo_pos_ranks, league, pull>>

-----------------------------------------------------------------------------
(* The builders' specification: one builder call on a puller that is new or *)
(* has its players map cached                                               *)

\* records per response of an ADP URL
MaxAdpItems == 1

\* items per response of a trending endpoint
MaxTrendingItems == 1

\* players on the rosters of a league
MaxLeaguePlayers == 2

SeqsUpTo(S, n) == UNION {[1..k -> S] : k \in 0..n}

\* the players endpoint's answers: player "1" and "2" are WR or DEF, player
\* "3" is WR, LB or has no position, or has a name that is only a suffix, or
\* has neither full_name nor last_name
BuildPlayersData ==
    { << [pid |-> "1", full_name |-> Name_Abcd, position |-> p1, team |-> "WAS"],
         [pid |-> "2", full_name |-> Name_AbcdJr, position |-> p2, team |-> ""],
         [pid |-> "3", full_name |-> c[1], position |-> c[2], team |-> "DAL"] >> :
      p1 \in {"WR", "DEF"}, p2 \in {"WR", "DEF"},
      c \in {<<Name_Zz, "WR">>, <<Name_Zz, "LB">>, <<Name_Zz, "">>,
             <<Name_Jr, "WR">>, <<<<>>, "WR">>} }

BuildPlayersResponses ==
    {[kind |-> "raise", data |-> <<>>], [kind |-> "status", data |-> <<>>]}
    \cup {[kind |-> "ok", data |-> d] : d \in BuildPlayersData}

AdpItems == [pid : {"1", "2"}, adp : {1, 2}]

AdpResponses ==
    {[kind |-> k, items |-> <<>>, filler |-> 0] : k \in {"raise", "status"}}
    \cup {[kind |-> "ok", items |-> l, filler |-> 0] : l \in SeqsUpTo(AdpItems, MaxAdpItems)}
    \cup {[kind |-> "ok", items |-> <<>>, filler |-> AdpEnough]}

\* the answers of the last candidate URL: none of them carries a record of a
\* modelled player
LastAdpResponses == {r \in AdpResponses : r.items = <<>>}

\* the three candidate URLs' answers
AdpUrlAnswers ==
    {<<r1, r2, r3>> : r1 \in AdpResponses, r2 \in AdpResponses, r3 \in LastAdpResponses}

TrendingItems == [pid : Pids, count : {1, 2}]

TrendingResponses ==
    {[kind |-> k, items |-> <<>>] : k \in {"raise", "status"}}
    \cup {[kind |-> "ok", items |-> l] : l \in SeqsUpTo(TrendingItems, MaxTrendingItems)}

YahooPlayers ==
    [name : {Name_Abcd, Name_AbcdJr, Name_Zz}, display_position : {"WR"},
     team : {"WAS"}, points : {<<2, 2>>, <<3, 1>>, <<1, -1>>}]
    \cup {[name |-> Name_Abcd, display_position |-> "DEF", team |-> "WAS", points |-> <<2, 2>>],
          [name |-> Name_Jr, display_position |-> "WR/RB", team |-> "", points |-> <<-1, -1>>],
          [name |-> <<>>, display_position |-> "WR", team |-> "", points |-> <<2, 2>>],
          [name |-> Name_Zz, display_position |-> "", team |-> "", points |-> <<2, 2>>]}

\* the leagues: two teams, the first with at most one player; no week or two
\* weeks are completed
BuildLeagues ==
    {[weeks |-> w, teams |-> <<t1, t2>>] :
        w \in {0, 2},
        t1 \in SeqsUpTo(YahooPlayers, 1),
        t2 \in SeqsUpTo(YahooPlayers, MaxLeaguePlayers - 1)}

CallableBuilder == last.op \in {"init", "fetch_sleeper_players"}

BuildFetchPlayers ==
    /\ last.op = "init"
    /\ \E resp \in AnswersOf(BuildPlayersResponses) : FetchSleeperPlayers(resp)

BuildAdp ==
    /\ CallableBuilder
    /\ \E urls \in AdpUrlAnswers, resp \in AnswersOf(BuildPlayersResponses) :
          FetchSleeperAdpPosRanks(urls, resp)

BuildTrending ==
    /\ CallableBuilder
    /\ \E endpoints \in [1..2 -> TrendingResponses],
          resp \in AnswersOf(BuildPlayersResponses) :
          FetchSleeperTrendingPosRanks(endpoints, resp)

BuildYahoo ==
    /\ CallableBuilder
    /\ \E lg \in BuildLeagues : BuildYahooPosRanks(lg)

\* a roster is serialized on a new puller or after the Yahoo table was built
BuildSerialize ==
    /\ last.op \in {"init", "build_yahoo_pos_ranks"}
    /\ \E players \in (IF last.op = "init" THEN SeqsUpTo(YahooPlayers, 1)
                        ELSE Range(league.teams)) :
          \E faults \in [1..Len(players) -> PlayerFaults] :
              SerializeRoster(players, faults)

NextBuild ==
    \/ BuildFetchPlayers \/ BuildAdp \/ BuildTrending \/ BuildYahoo
    \/ BuildSerialize \/ NewPuller

SpecBuild == Init /\ [][NextBuild]_vars

-----------------------------------------------------------------------------
(* The matchers' specification: the players map and the two Sleeper tables  *)
(* are loaded, and roster entries are resolved against them                 *)

\* player ids a loaded table ranks
MaxRanked == 2

\* players "1" and "2" normalize to one name; player "3", of another team, has
\* that name or another one
MatchPlayersData ==
    { << [pid |-> "1", full_name |-> Name_Abcd, position |-> a[1], team |-> a[2]],
         [pid |-> "2", full_name |-> Name_AbcdJr, position |-> b[1], team |-> b[2]],
         [pid |-> "3", full_name |-> c[1], position |-> c[2], team |-> "DAL"] >> :
      a \in {<<"WR", "">>, <<"WR", "WAS">>, <<"DEF", "WAS">>},
      b \in {<<"WR", "">>, <<"WR", "WAS">>, <<"DEF", "WAS">>},
      c \in {<<Name_Abcd, "WR">>, <<Name_Zz, "WR">>, <<Name_Zz, "DEF">>} }

MatchPlayersResponses ==
    {[kind |-> "status", data |-> <<>>]}
    \cup {[kind |-> "ok", data |-> d] : d \in MatchPlayersData}

\* the sequences of at most n distinct player ids
DistinctPidSeqs(n) ==
    {l \in SeqsUpTo(Pids, n) : \A i, j \in 1..Len(l) : i # j => l[i] # l[j]}

\* the first ADP URL answers with records in ADP order; the others fail
MatchAdpUrls ==
    { << [kind |-> "ok", items |-> [i \in 1..Len(l) |-> [pid |-> l[i], adp |-> i]],
          filler |-> 0],
         [kind |-> "status", items |-> <<>>, filler |-> 0],
         [kind |-> "raise", items |-> <<>>, filler |-> 0] >> :
      l \in DistinctPidSeqs(MaxRanked) }

\* the add endpoint answers with one item per player id, the drop endpoint
\* with another status than 200
MatchTrendingEndpoints ==
    { << [kind |-> "ok", items |-> [i \in 1..Len(l) |-> [pid |-> l[i], count |-> Len(l) - i]]],
         [kind |-> "status", items |-> <<>>] >> :
      l \in DistinctPidSeqs(MaxRanked) }

RosterEntries ==
    [name : {Name_AbcdJr, Name_Abc, Name_Zz, Name_Q},
     display_position : {"WR/RB", "DEF"},
     editorial_team_abbr : {"", "wsh", "DAL"}]
    \cup {[name |-> <<>>, display_position |-> "WR/RB", editorial_team_abbr |-> ""]}

\* each cache is filled once; entries are resolved against whatever is loaded.
\* A resolution changes no cache but the players map, so resolving again from
\* the state a resolution left reaches no state that resolving before it does
\* not reach
MatchFetchPlayers ==
    /\ ~sleeper_players.cached
    /\ \E resp \in AnswersOf(MatchPlayersResponses) : FetchSleeperPlayers(resp)

MatchLoadAdp ==
    /\ ~sleeper_adp_pos_ranks.isset
    /\ \E urls \in MatchAdpUrls, resp \in AnswersOf(MatchPlayersResponses) :
          LoadSleeperAdpPosRanks(urls, resp)

MatchLoadTrending ==
    /\ ~sleeper_pos_ranks.isset
    /\ \E endpoints \in MatchTrendingEndpoints, resp \in AnswersOf(MatchPlayersResponses) :
          LoadSleeperPosRanks(endpoints, resp)

MatchResolve ==
    /\ last.op # "resolve_rank"
    /\ \E entry \in RosterEntries, fz \in {"ok", "raise"},
          resp \in AnswersOf(MatchPlayersResponses) :
          ResolveRank(entry, fz, resp)

NextMatch == MatchFetchPlayers \/ MatchLoadAdp \/ MatchLoadTrending \/ MatchResolve

SpecMatch == Init /\ [][NextMatch]_vars

-----------------------------------------------------------------------------
(* The pulls' specification: pull_all_standings runs, one step per team,    *)
(* on a puller whose other operations are called between the runs           *)

\* pull_all_standings runs on one puller object
MaxPulls == 2

\* players of a roster that is serialized outside a run
MaxRoster == 2

PullPlayers ==
    {[name |-> Name_Abcd, display_position |-> "WR", team |-> "WAS", points |-> <<2, 2>>],
     [name |-> Name_Zz, display_position |-> "WR", team |-> "WAS", points |-> <<2, 2>>],
     [name |-> Name_Zz, display_position |-> "WR", team |-> "WAS", points |-> <<3, 1>>]}

\* the standings of the two teams: the second team is ahead of the first
PullStandings ==
    << [name |-> "A", wins |-> 0, losses |-> 1, ties |-> 0, points_for |-> 1],
       [name |-> "B", wins |-> 1, losses |-> 0, ties |-> 0, points_for |-> 2] >>

\* the league connect_to_league finds: two teams of at most one player when
\* two weeks are completed, a team of one player and an empty team when no
\* week is
PullLeagues ==
    {[weeks |-> 2, teams |-> <<t1, t2>>, standings |-> PullStandings] :
        t1 \in SeqsUpTo(PullPlayers, 1), t2 \in SeqsUpTo(PullPlayers, 1)}
    \cup {[weeks |-> 0, teams |-> <<t1, <<>> >>, standings |-> PullStandings] :
             t1 \in [1..1 -> PullPlayers]}

PullPlayersResponses ==
    {[kind |-> "raise", data |-> <<>>], [kind |-> "status", data |-> <<>>],
     [kind |-> "ok",
      data |-> << [pid |-> "1", full_name |-> Name_Abcd, position |-> "WR", team |-> "WAS"],
                  [pid |-> "2", full_name |-> Name_AbcdJr, position |-> "WR", team |-> ""],
                  [pid |-> "3", full_name |-> Name_Zz, position |-> "WR", team |-> "DAL"] >>]}

\* a version in which a failing _build_yahoo_pos_ranks ends the run
PullAbortsOnBuildFailure(connected, build_fails) == ~connected \/ build_fails

\* pull_all_standings returns None before it reaches the teams
PullAborts(connected, build_fails) == ~connected

\* pull_all_standings up to the loop over the teams: connect_to_league, then
\* _build_yahoo_pos_ranks, which leaves {} when it raises, then
\* list(self.league.teams()), which ends the run with None when it raises
PullStart(connected, lg, build_fails, teams_read) ==
    /\ pull.phase # "teams"
    /\ pull.n < MaxPulls
    /\ IF PullAborts(connected, build_fails)
       THEN /\ pull' = [phase |-> "done", n |-> pull.n + 1, next |-> 0,
                        build_failed |-> FALSE, returned |-> <<>>, skipped |-> {},
                        aborted |-> TRUE]
            /\ UNCHANGED <<league, yahoo_pos_ranks>>
       ELSE /\ league' = lg
            /\ yahoo_pos_ranks' =
                  [isset |-> TRUE,
                   ranks |-> IF build_fails THEN EmptyYahooTable ELSE YahooPosRanks(lg)]
            /\ pull' = [phase |-> IF teams_read THEN "teams" ELSE "done",
                        n |-> pull.n + 1, next |-> IF teams_read THEN 1 ELSE 0,
                        build_failed |-> build_fails, returned |-> <<>>,
                        skipped |-> {}, aborted |-> ~teams_read]
    /\ last' = [op |-> "pull_all_standings", step |-> "start",
                connected |-> connected, build_fails |-> build_fails,
                teams_read |-> teams_read]
    /\ UNCHANGED <<imports_ok, sleeper_players, sleeper_adp_pos_ranks, sleeper_pos_ranks,
                   players_requests>>

\* win_percentage = round(wins / total_games, 3) if total_games > 0 else 0.0,
\* in thousandths
WinPercentage(st) ==
    LET total_games == st.wins + st.losses + st.ties
        q == (1000 * st.wins) \div total_games
        r == (1000 * st.wins) % total_games
    IN  IF total_games = 0 THEN 0
        ELSE IF 2 * r > total_games THEN q + 1
        ELSE IF 2 * r = total_games THEN q + (q % 2)
        ELSE q

\* the team_data pull_team_standings_data returns for team i
TeamData(lg, i, roster) ==
    [team |-> i, name |-> lg.standings[i].name,
     win_percentage |-> WinPercentage(lg.standings[i]),
     points_for |-> lg.standings[i].points_for, roster |-> roster]

\* league_data["teams"][team.name] = team_data: a name that is a key already
\* keeps its place in the dict and takes the new value
TeamsWith(teams, data) ==
    IF \E k \in 1..Len(teams) : teams[k].name = data.name
    THEN [k \in 1..Len(teams) |-> IF teams[k].name = data.name THEN data ELSE teams[k]]
    ELSE Append(teams, data)

\* key=lambda x: (-x[1]["win_percentage"], -x[1]["points_for"])
TeamBefore(a, b) ==
    \/ a.win_percentage > b.win_percentage
    \/ a.win_percentage = b.win_percentage /\ a.points_for > b.points_for

\* one turn of the loop: pull_team_standings_data(team), which returns None
\* when it fails before the roster is serialized; team_data goes into
\* league_data["teams"] unless it is None
PullTeam(fails, faults) ==
    /\ pull.phase = "teams"
    /\ pull.next <= Len(league.teams)
    /\ LET players == league.teams[pull.next]
           table   == IF fails THEN yahoo_pos_ranks ELSE EnsuredYahooTable(yahoo_pos_ranks)
       IN  /\ yahoo_pos_ranks' = table
           /\ pull' = [pull EXCEPT
                         !.next = @ + 1,
                         !.skipped = IF fails THEN @ \cup {pull.next} ELSE @,
                         !.returned =
                             IF fails THEN @
                             ELSE TeamsWith(@, TeamData(league, pull.next,
                                     SerializedRoster(table, players, faults)))]
           /\ last' = [op |-> "pull_all_standings", step |-> "team", fails |-> fails]
    /\ UNCHANGED <<imports_ok, sleeper_players, sleeper_adp_pos_ranks, sleeper_pos_ranks,
                   league, players_requests>>

\* the loop is over: the teams are sorted and pull_all_standings returns
\* league_data
PullFinish ==
    /\ pull.phase = "teams"
    /\ pull.next > Len(league.teams)
    /\ pull' = [pull EXCEPT !.phase = "done",
                            !.returned = StableSort(@, TeamBefore)]
    /\ last' = [op |-> "pull_all_standings", step |-> "return"]
    /\ UNCHANGED <<imports_ok, sleeper_players, sleeper_adp_pos_ranks, sleeper_pos_ranks,
                   yahoo_pos_ranks, league, players_requests>>

\* a run whose connection fails sees no league
PullBegin ==
    \/ PullStart(FALSE, NoLeague, FALSE, TRUE)
    \/ \E lg \in PullLeagues, build_fails \in BOOLEAN :
          PullStart(TRUE, lg, build_fails, TRUE)

PullNextTeam ==
    /\ pull.phase = "teams"
    /\ pull.next <= Len(league.teams)
    /\ \E fails \in BOOLEAN :
          \E faults \in [1..Len(league.teams[pull.next]) -> PlayerFaults] :
              PullTeam(fails, faults)

\* _fetch_sleeper_players is called between the runs, any number of times
PullFetchPlayers ==
    /\ pull.phase # "teams"
    /\ \E resp \in AnswersOf(PullPlayersResponses) : FetchSleeperPlayers(resp)

\* the players of the teams, in one roster
RECURSIVE AllPlayers(_)
AllPlayers(teams) ==
    IF teams = <<>> THEN <<>> ELSE Head(teams) \o AllPlayers(Tail(teams))

\* serialize_roster is called on a puller that ran no pull, or when a run
\* has returned, on a roster of all the players of the league
PullSerialize ==
    /\ \/ pull.phase = "idle" /\ last.op # "serialize_roster"
       \/ pull.phase = "done" /\ last.op = "pull_all_standings"
    /\ \E players \in (IF pull.phase = "idle" THEN SeqsUpTo(PullPlayers, MaxRoster)
                        ELSE {AllPlayers(league.teams)}) :
          \E faults \in [1..Len(players) -> PlayerFaults] :
              SerializeRoster(players, faults)

PullNewPuller == pull.phase # "teams" /\ NewPuller

NextPull ==
    \/ PullBegin \/ PullNextTeam \/ PullFinish
    \/ PullFetchPlayers \/ PullSerialize \/ PullNewPuller

SpecPull == Init /\ [][NextPull]_vars

-----------------------------------------------------------------------------
(* The standings' specification: one pull_all_standings run per puller, on  *)
(* leagues whose teams differ in name, record and points                    *)

\* teams of a league
MaxTeams == 2

\* the standings of a team: two names, so that two teams can carry one name;
\* no game, a win and a loss, or a win and a tie
StandTeams ==
    {[name |-> nm, wins |-> r[1], losses |-> r[2], ties |-> r[3], points_for |-> pf] :
        nm \in {"A", "B"}, r \in {<<0, 0, 0>>, <<1, 1, 0>>, <<1, 0, 1>>, <<1, 0, 0>>},
        pf \in {1, 2}}

\* leagues of teams without players
StandLeagues ==
    UNION {{[weeks |-> 0, teams |-> [i \in 1..k |-> <<>>], standings |-> st] :
                st \in [1..k -> StandTeams]} : k \in 0..MaxTeams}

StandBegin ==
    /\ pull.phase = "idle"
    /\ \/ PullStart(FALSE, NoLeague, FALSE, TRUE)
       \/ \E lg \in StandLeagues, teams_read \in BOOLEAN :
             PullStart(TRUE, lg, FALSE, teams_read)

StandNextTeam ==
    /\ pull.phase = "teams"
    /\ pull.next <= Len(league.teams)
    /\ \E fails \in BOOLEAN : PullTeam(fails, <<>>)

NextStand == StandBegin \/ StandNextTeam \/ PullFinish \/ PullNewPuller

SpecStand == Init /\ [][NextStand]_vars

-----------------------------------------------------------------------------
(* The normalizers' specification: _normalize_name and _normalize_team are  *)
(* applied to a string, to the string with a suffix appended, and to their  *)
(* own results                                                              *)

\* characters of a name
MaxNameLen == 4

\* the characters names are made of: letters of the suffix tokens in both
\* cases, whitespace, the period, the hyphen and a character the pattern
\* [^a-z0-9\s\.\-] removes
NameChars == {"j", "R", "v", "a", " ", ".", "-", "'"}

NameInputs == SeqsUpTo(NameChars, MaxNameLen)

\* generational suffixes, in several letter cases, with and without period
SuffixInputs ==
    { <<"j","r">>, <<"J","r",".">>, <<"S","R">>, <<"s","r",".">>, <<"i","i">>,
      <<"I","I",".">>, <<"i","I","i">>, <<"I","V">>, <<"i","v",".">>, <<"v">>, <<"V",".">> }

\* the team codes: the aliases and their canonical codes, other codes, in
\* several letter cases, and the empty code (None as well: "if not team")
TeamInputs ==
    {"", "WSH", "wsh", "Wsh", "JAX", "jax", "LA", "la", "La", "OAK", "oak", "STL",
     "stl", "SD", "sd", "sD", "WAS", "was", "JAC", "LAR", "lar", "LV", "LAC",
     "DAL", "dal", "KC", "kc"}

InitNorm ==
    /\ imports_ok = TRUE
    /\ league = NoLeague
    /\ sleeper_players = NoPlayers
    /\ sleeper_adp_pos_ranks = NoSleeperTable
    /\ sleeper_pos_ranks = NoSleeperTable
    /\ yahoo_pos_ranks = NoYahooTable
    /\ players_requests = 0
    /\ pull = NoPull
    /\ \/ \E x \in NameInputs : last = [op |-> "name", s |-> x]
       \/ \E t \in TeamInputs : last = [op |-> "team", code |-> t]

\* x + " " + suffix
NormAppendSuffix ==
    /\ last.op = "name"
    /\ \E sfx \in SuffixInputs :
          last' = [op |-> "suffixed", arg |-> last.s, s |-> last.s \o <<" ">> \o sfx]
    /\ UNCHANGED <<imports_ok, sleeper_players, sleeper_adp_pos_ranks, sleeper_pos_ranks,
                   yahoo_pos_ranks, league, players_requests, pull>>

\* _normalize_name(s) on the string at hand, which can be a result of it
NormNormalizeName ==
    /\ last.op \in {"name", "suffixed", "normalize_name"}
    /\ last' = [op |-> "normalize_name", arg |-> last.s, s |-> NormalizeName(last.s)]
    /\ UNCHANGED <<imports_ok, sleeper_players, sleeper_adp_pos_ranks, sleeper_pos_ranks,
                   yahoo_pos_ranks, league, players_requests, pull>>

\* _normalize_team(team) on the code at hand, which can be a result of it
NormNormalizeTeam ==
    /\ last.op \in {"team", "normalize_team"}
    /\ last' = [op |-> "normalize_team", arg |-> last.code, code |-> NormalizeTeam(last.code)]
    /\ UNCHANGED <<imports_ok, sleeper_players, sleeper_adp_pos_ranks, sleeper_pos_ranks,
                   yahoo_pos_ranks, league, players_requests, pull>>

NextNorm == NormAppendSuffix \/ NormNormalizeName \/ NormNormalizeTeam

SpecNorm == InitNorm /\ [][NextNorm]_vars

-----------------------------------------------------------------------------
(* Claims about the rank builders *)

\* the ranks of one position's rank_map are exactly 1..N, N the number of its keys
DenseRanks(rank_map) ==
    {rank_map[k] : k \in RankedKeys(rank_map)} = 1..Cardinality(RankedKeys(rank_map))

\* C1: the ranks _fetch_sleeper_adp_pos_ranks assigns within each position are
\* exactly 1..N, each used once, N being the number of player ids ranked in
\* that position, also when a player id occurs in more than one ADP record.
C1_AdpRanksDense ==
    last.op = "fetch_sleeper_adp_pos_ranks" =>
        \A pos \in TablePositions : DenseRanks(last.ret[pos])

\* C2: the Yahoo PPG table and the Sleeper trending table assign, within each
\* position, exactly the ranks 1..N with no gap and no repeated rank, N being
\* the number of keys of that position in the table.
C2_YahooTrendingDense ==
    /\ last.op = "build_yahoo_pos_ranks" =>
          /\ yahoo_pos_ranks.ranks = last.ret
          /\ \A pos \in TablePositions : DenseRanks(last.ret[pos])
    /\ last.op = "fetch_sleeper_trending_pos_ranks" =>
          \A pos \in TablePositions : DenseRanks(last.ret[pos])

\* a Yahoo table was built that ranks two names at WR, from a league in which
\* a third player shares one of the names
C2_Witness ==
    /\ last.op = "build_yahoo_pos_ranks"
    /\ Cardinality(RankedKeys(last.ret["WR"])) = 2
    /\ Len(AllLeaguePlayers(league)) = 2
    /\ \E i \in 1..2 : AllLeaguePlayers(league)[i].name = Name_AbcdJr

-----------------------------------------------------------------------------
(* Claims about serialize_roster and the matchers *)

Resolved == last.op = "resolve_rank"

\* C3: the pos_rank serialize_roster attaches to every roster entry is the
\* value _match_sleeper_composite_rank returns for that entry.
C3_PosRankIsComposite ==
    last.op = "serialize_roster" =>
        \A i \in 1..Len(last.roster) :
            \A resp \in AnswersOf(BuildPlayersResponses) :
                last.roster[i].pos_rank =
                    MatchSleeperCompositeRank(sleeper_adp_pos_ranks, sleeper_pos_ranks,
                        FetchedPlayers(sleeper_players, imports_ok, resp).map,
                        imports_ok, last.roster[i], "ok")

\* C4: whenever the ADP matcher yields a rank the composite resolver returns
\* exactly that rank, whatever the trending matcher yields; the trending rank
\* is returned only when the ADP matcher yields none.
C4_AdpBeforeTrending ==
    Resolved =>
        /\ last.adp # 0 => last.composite = last.adp
        /\ (last.adp = 0 /\ last.trending # 0) => last.composite = last.trending

\* both matchers yield a rank for the entry, and the ranks differ
C4_Witness ==
    /\ Resolved
    /\ last.adp # 0
    /\ last.trending # 0
    /\ last.adp # last.trending

\* what the three matchers return for another entry in the caches of this state
AdpOf(e) ==
    MatchSleeperAdpRank(sleeper_adp_pos_ranks, sleeper_players.map, imports_ok, e, "ok")

TrendingOf(e) ==
    MatchSleeperTrendingRank(sleeper_pos_ranks, sleeper_players.map, imports_ok, e, "ok")

CompositeOf(e) ==
    MatchSleeperCompositeRank(sleeper_adp_pos_ranks, sleeper_pos_ranks,
                              sleeper_players.map, imports_ok, e, "ok")

\* C5: for two roster entries of one position, one resolved to a rank of the
\* ADP or the trending table and the other to the fallback rank, the fallback
\* rank is strictly greater than the explicit rank.
C5_FallbackAfterRanked ==
    (Resolved /\ (last.adp # 0 \/ last.trending # 0)) =>
        \A e \in RosterEntries :
            ( /\ EntryPos(e.display_position) = EntryPos(last.entry.display_position)
              /\ AdpOf(e) = 0
              /\ TrendingOf(e) = 0
              /\ CompositeOf(e) # 0 )
            => CompositeOf(e) > last.composite

\* the ids the entry's normalized name resolves to: its exact bucket, else the
\* bucket of the key that scores best, when that score reaches the cutoff
ResolvedIds(entry) ==
    LET map  == sleeper_players.map
        norm == NormalizeName(entry.name)
        keys == IndexKeys(map)
        hits == {i \in 1..Len(keys) :
                   /\ ScoresAtLeastCutoff(norm, keys[i])
                   /\ \A j \in 1..Len(keys) : ~ScoresHigher(norm, keys[j], keys[i])}
    IN  IF Bucket(map, norm) # <<>> THEN Range(Bucket(map, norm))
        ELSE IF imports_ok /\ hits # {} THEN Range(map.name_to_ids[SetMin(hits)].ids)
        ELSE {}

\* the identity is of the entry's position, in the tables' position names
SamePosition(pid, entry) ==
    BuilderPos(sleeper_players.map, pid) = EntryPos(entry.display_position)

\* no id the entry resolves to has a rank in either table
NoCandidateRanked(entry) ==
    \A pid \in ResolvedIds(entry) :
        /\ RankMapOf(sleeper_adp_pos_ranks, EntryPos(entry.display_position))[pid] = 0
        /\ RankMapOf(sleeper_pos_ranks, EntryPos(entry.display_position))[pid] = 0

\* the ranks of the best available table of a position: the ADP table's when
\* it has ranks for the position, else the trending table's
BestTableRanks(pos) ==
    LET a == RankMapOf(sleeper_adp_pos_ranks, pos)
        t == RankMapOf(sleeper_pos_ranks, pos)
    IN  IF HasRanks(a) THEN {a[k] : k \in RankedKeys(a)} ELSE {t[k] : k \in RankedKeys(t)}

\* C6: when the entry's name resolves, exactly or by fuzzy match, to an
\* identity of its position and no candidate has a rank in the ADP or the
\* trending table, the composite resolver returns an integer strictly greater
\* than every rank of the best available table of the position.
C6_FallbackIsMaxPlusOne ==
    ( /\ Resolved
      /\ last.fz = "ok"
      /\ \E pid \in ResolvedIds(last.entry) : SamePosition(pid, last.entry)
      /\ NoCandidateRanked(last.entry) )
    => /\ last.composite # 0
       /\ \A r \in BestTableRanks(EntryPos(last.entry.display_position)) :
             last.composite > r

\* C7: an entry whose normalized name is in the identity index with an identity
\* of its position never resolves to none, whatever the rank tables hold.
C7_KnownIsNeverNone ==
    ( /\ Resolved
      /\ \E pid \in Range(Bucket(sleeper_players.map, NormalizeName(last.entry.name))) :
            SamePosition(pid, last.entry) )
    => last.composite # 0

\* no key of the identity index scores at or above the cutoff against norm
NoFuzzyMatch(norm) ==
    \A i \in 1..Len(sleeper_players.map.name_to_ids) :
        ~ScoresAtLeastCutoff(norm, sleeper_players.map.name_to_ids[i].name)

\* C8: when the entry's normalized name has no exact bucket and no fuzzy match
\* at or above the cutoff, the three matchers return none, whatever the rank
\* tables contain.
C8_UnknownIsNone ==
    ( /\ Resolved
      /\ Bucket(sleeper_players.map, NormalizeName(last.entry.name)) = <<>>
      /\ NoFuzzyMatch(NormalizeName(last.entry.name)) )
    => /\ last.adp = 0
       /\ last.trending = 0
       /\ last.composite = 0

\* an entry without exact bucket or fuzzy match was resolved with the fuzzy
\* lookup at work, against an index with keys and tables that both rank its
\* position
C8_Witness ==
    /\ Resolved
    /\ imports_ok
    /\ last.fz = "ok"
    /\ last.entry.name # <<>>
    /\ sleeper_players.map.name_to_ids # <<>>
    /\ Bucket(sleeper_players.map, NormalizeName(last.entry.name)) = <<>>
    /\ NoFuzzyMatch(NormalizeName(last.entry.name))
    /\ HasRanks(RankMapOf(sleeper_adp_pos_ranks, EntryPos(last.entry.display_position)))
    /\ HasRanks(RankMapOf(sleeper_pos_ranks, EntryPos(last.entry.display_position)))

\* the identity's team agrees with the entry's when both carry one
SameTeamIfBoth(pid, entry) ==
    LET team  == NormalizeTeam(entry.editorial_team_abbr)
        pteam == NormalizeTeam(sleeper_players.map.id_to_player[pid].team)
    IN  team = "" \/ pteam = "" \/ team = pteam

\* the rank r of the table belongs to an identity the entry resolves to that
\* has the entry's position and, when both carry a team, the entry's team
RankOfMatchingIdentity(table, r, entry) ==
    \E pid \in ResolvedIds(entry) :
        /\ RankMapOf(table, EntryPos(entry.display_position))[pid] = r
        /\ SamePosition(pid, entry)
        /\ SameTeamIfBoth(pid, entry)

\* C9: every rank the ADP or the trending matcher returns belongs to a
\* candidate identity whose position is the entry's and whose team, when both
\* carry one, is the entry's; a same-name candidate on another team never
\* supplies the rank.
C9_RankFromSamePosAndTeam ==
    (Resolved /\ last.fz = "ok") =>
        /\ last.adp # 0 => RankOfMatchingIdentity(sleeper_adp_pos_ranks, last.adp, last.entry)
        /\ last.trending # 0 =>
              RankOfMatchingIdentity(sleeper_pos_ranks, last.trending, last.entry)

\* the candidates of the entry that pass the position and team filter
Remaining(entry) ==
    {pid \in ResolvedIds(entry) :
        /\ PlayerPos(sleeper_players.map, pid) = EntryPos(entry.display_position)
        /\ SameTeamIfBoth(pid, entry)}

\* the smallest rank the table has for one of the ids, 0 when it has none
MinRankAmong(table, pos, ids) ==
    LET ranks == {RankMapOf(table, pos)[pid] : pid \in ids} \ {0}
    IN  IF ranks = {} THEN 0 ELSE SetMin(ranks)

\* the players map with every bucket in the opposite order
ReversedBuckets(map) ==
    [map EXCEPT !.name_to_ids =
        [i \in 1..Len(map.name_to_ids) |->
            [name |-> map.name_to_ids[i].name, ids |-> Reverse(map.name_to_ids[i].ids)]]]

\* C10: when several candidates remain after position and team filtering, the
\* ADP and the trending matcher return the minimum rank among those that have
\* a rank in the table, whatever the order of the candidates in the bucket.
C10_BestOfRemaining ==
    (Resolved /\ last.fz = "ok" /\ Cardinality(Remaining(last.entry)) >= 2) =>
        LET pos == EntryPos(last.entry.display_position)
        IN  /\ last.adp = MinRankAmong(sleeper_adp_pos_ranks, pos, Remaining(last.entry))
            /\ last.trending = MinRankAmong(sleeper_pos_ranks, pos, Remaining(last.entry))
            /\ last.adp = MatchSleeperAdpRank(sleeper_adp_pos_ranks,
                              ReversedBuckets(sleeper_players.map), imports_ok,
                              last.entry, "ok")
            /\ last.trending = MatchSleeperTrendingRank(sleeper_pos_ranks,
                                   ReversedBuckets(sleeper_players.map), imports_ok,
                                   last.entry, "ok")

\* two candidates remain, both ranked by the ADP table, and the one that comes
\* first in the bucket has the worse rank
C10_Witness ==
    /\ Resolved
    /\ last.fz = "ok"
    /\ Cardinality(Remaining(last.entry)) >= 2
    /\ LET pos == EntryPos(last.entry.display_position)
           ids == Bucket(sleeper_players.map, NormalizeName(last.entry.name))
       IN  /\ Len(ids) >= 2
           /\ ids[1] \in Remaining(last.entry)
           /\ ids[2] \in Remaining(last.entry)
           /\ RankMapOf(sleeper_adp_pos_ranks, pos)[ids[1]] = 2
           /\ RankMapOf(sleeper_adp_pos_ranks, pos)[ids[2]] = 1
           /\ last.adp = 1

-----------------------------------------------------------------------------
(* Claims about the fuzzy tier *)

\* the players map with no other bucket than the one of norm
OnlyBucket(map, norm) ==
    [map EXCEPT !.name_to_ids =
        SelectSeq(map.name_to_ids, LAMBDA b : b.name = norm)]

\* C11: the fuzzy lookup is consulted only when the exact bucket of the
\* normalized name is empty; with a non-empty exact bucket the three matchers
\* return what they return on that bucket alone, however extractOne would
\* behave.
C11_ExactBeforeFuzzy ==
    Resolved =>
        LET norm == NormalizeName(last.entry.name)
            map  == sleeper_players.map
        IN  /\ FuzzyConsulted(map, imports_ok, norm) => Bucket(map, norm) = <<>>
            /\ Bucket(map, norm) # <<>> =>
                 \A fz \in {"ok", "raise"} :
                    /\ last.adp = MatchSleeperAdpRank(sleeper_adp_pos_ranks,
                                      OnlyBucket(map, norm), imports_ok, last.entry, fz)
                    /\ last.trending = MatchSleeperTrendingRank(sleeper_pos_ranks,
                                           OnlyBucket(map, norm), imports_ok, last.entry, fz)
                    /\ last.composite = MatchSleeperCompositeRank(sleeper_adp_pos_ranks,
                                            sleeper_pos_ranks, OnlyBucket(map, norm),
                                            imports_ok, last.entry, fz)

\* an entry with an exact bucket was resolved while extractOne would raise; no
\* id of the bucket has an ADP rank, another name's id has one, and the index
\* holds other keys
C11_Witness ==
    /\ Resolved
    /\ imports_ok
    /\ last.fz = "raise"
    /\ Bucket(sleeper_players.map, NormalizeName(last.entry.name)) # <<>>
    /\ Len(sleeper_players.map.name_to_ids) >= 2
    /\ HasRanks(RankMapOf(sleeper_adp_pos_ranks, EntryPos(last.entry.display_position)))
    /\ last.adp = 0
    /\ last.composite # 0

-----------------------------------------------------------------------------
(* Claims about the order of the rank tables *)

\* two players of the Yahoo statistics with equal average and equal last-week
\* points
YahooTied(a, b) == AvgEqual(a, b) /\ a.last_pts = b.last_pts

\* C12: in the Yahoo PPG table, players of one position with equal average
\* and equal last-week points get distinct, consecutive ranks in the order in
\* which their names were first encountered on the rosters.
C12_TiesKeepRosterOrder ==
    (last.op = "build_yahoo_pos_ranks" /\ league.weeks > 0) =>
        \A pos \in TablePositions :
            LET st == PosStats(league, pos)
                r  == last.ret[pos]
            IN  \A i, j \in 1..Len(st) :
                    (i < j /\ YahooTied(st[i], st[j])) =>
                        /\ r[st[i].norm] # 0
                        /\ r[st[i].norm] < r[st[j].norm]
                        /\ \A k \in 1..Len(st) :
                              ~YahooTied(st[k], st[i]) =>
                                  ~(/\ r[st[i].norm] < r[st[k].norm]
                                    /\ r[st[k].norm] < r[st[j].norm])

\* a table was built from two WR with equal average and last-week points; the
\* one met first has rank 1, the other rank 2
C12_Witness ==
    /\ last.op = "build_yahoo_pos_ranks"
    /\ league.weeks > 0
    /\ LET st == PosStats(league, "WR")
       IN  /\ Len(st) = 2
           /\ YahooTied(st[1], st[2])
           /\ last.ret["WR"][st[1].norm] = 1
           /\ last.ret["WR"][st[2].norm] = 2

\* the Yahoo statistics of a position sorted as the code sorts them
\* (reverse=True) and with the direction flag flipped (reverse=False)
YahooDescending(lg, pos) == StableSort(PosStats(lg, pos), YahooBefore)

YahooAscending(lg, pos) == StableSort(PosStats(lg, pos), YahooAfter)

\* the ADP records of a position sorted as the code sorts them (ascending) and
\* with the direction flag flipped (reverse=True)
AdpAfter(a, b) == AdpBefore(b, a)

AdpAscending(items) == StableSort(items, AdpBefore)

AdpDescending(items) == StableSort(items, AdpAfter)

\* the ADP records of a position the last call of the builder sorted
LastAdpPosList(pos) ==
    AdpPosList(AdpRecords(last.urls).records, sleeper_players.map, pos)

NoYahooTie(st) == \A i, j \in 1..Len(st) : i # j => ~YahooTied(st[i], st[j])

NoAdpTie(items) == \A i, j \in 1..Len(items) : i # j => items[i].adp # items[j].adp

\* C13 as stated: for every input, ties included, the ascending and the
\* descending selection of one metric give exactly reversed orders, the item
\* at place i of one being at place N+1-i of the other.
C13_DirectionReverses ==
    /\ (last.op = "build_yahoo_pos_ranks" /\ league.weeks > 0) =>
          \A pos \in TablePositions :
              YahooAscending(league, pos) = Reverse(YahooDescending(league, pos))
    /\ last.op = "fetch_sleeper_adp_pos_ranks" =>
          \A pos \in TablePositions :
              AdpDescending(LastAdpPosList(pos)) = Reverse(AdpAscending(LastAdpPosList(pos)))

\* C13 amended: for every input in which no two items of the position have
\* equal metric values, the ascending and the descending selection give
\* exactly reversed orders.
C13_DirectionReversesUntied ==
    /\ (last.op = "build_yahoo_pos_ranks" /\ league.weeks > 0) =>
          \A pos \in TablePositions :
              NoYahooTie(PosStats(league, pos)) =>
                  YahooAscending(league, pos) = Reverse(YahooDescending(league, pos))
    /\ last.op = "fetch_sleeper_adp_pos_ranks" =>
          \A pos \in TablePositions :
              NoAdpTie(LastAdpPosList(pos)) =>
                  AdpDescending(LastAdpPosList(pos))
                      = Reverse(AdpAscending(LastAdpPosList(pos)))

\* a Yahoo table was built from two WR without a tie: the one ranked 1 is the
\* last of the ascending order
C13_Witness ==
    /\ last.op = "build_yahoo_pos_ranks"
    /\ league.weeks > 0
    /\ LET st == PosStats(league, "WR")
       IN  /\ Len(st) = 2
           /\ NoYahooTie(st)
           /\ last.ret["WR"][YahooAscending(league, "WR")[2].norm] = 1
           /\ last.ret["WR"][YahooAscending(league, "WR")[1].norm] = 2

\* the league's players that _collect_all_players_ppg files under pos
YahooPlayersOf(lg, pos) ==
    SelectSeq(AllLeaguePlayers(lg),
              LAMBDA p : p.name # <<>> /\ EntryPos(p.display_position) = pos /\ pos # "")

\* the items of the trending endpoints the last call of the builder combined
LastTrendingItems == TrendingCombined(last.endpoints)

\* element i is the only one of s with its key
OnceIn(s, i, Key(_)) == \A j \in 1..Len(s) : Key(s[j]) = Key(s[i]) => j = i

NormOf(p) == NormalizeName(p.name)

PidOf(it) == it.pid

\* C14: in every built rank table, of two identities of one position that
\* each occur once in the input, the one with the better metric has the smaller
\* rank: Yahoo by higher average, then higher last-week points; ADP by lower
\* ADP value; trending by higher combined count, then smaller player id.
C14_BetterMetricSmallerRank ==
    /\ (last.op = "build_yahoo_pos_ranks" /\ league.weeks > 0) =>
          \A pos \in TablePositions :
              LET ps == YahooPlayersOf(league, pos)
                  r  == last.ret[pos]
              IN  \A i, j \in 1..Len(ps) :
                      ( /\ OnceIn(ps, i, NormOf) /\ OnceIn(ps, j, NormOf)
                        /\ YahooBefore(PlayerStat(ps[i], league.weeks),
                                       PlayerStat(ps[j], league.weeks)) )
                      => /\ r[NormOf(ps[i])] # 0
                         /\ r[NormOf(ps[i])] < r[NormOf(ps[j])]
    /\ (last.op = "fetch_sleeper_adp_pos_ranks" /\ imports_ok) =>
          \A pos \in TablePositions :
              LET items == LastAdpPosList(pos)
                  r     == last.ret[pos]
              IN  \A i, j \in 1..Len(items) :
                      ( /\ OnceIn(items, i, PidOf) /\ OnceIn(items, j, PidOf)
                        /\ items[i].adp < items[j].adp )
                      => /\ r[items[i].pid] # 0
                         /\ r[items[i].pid] < r[items[j].pid]
    /\ ( /\ last.op = "fetch_sleeper_trending_pos_ranks"
         /\ imports_ok
         /\ \A e \in 1..Len(last.endpoints) : last.endpoints[e].kind # "raise" ) =>
          \A pos \in TrendingPositions :
              LET items == SelectSeq(LastTrendingItems,
                              LAMBDA it : /\ sleeper_players.map.id_to_player[it.pid].present
                                          /\ BuilderPos(sleeper_players.map, it.pid) = pos)
                  r     == last.ret[pos]
              IN  \A i, j \in 1..Len(items) :
                      ( /\ OnceIn(items, i, PidOf) /\ OnceIn(items, j, PidOf)
                        /\ \/ items[i].count > items[j].count
                           \/ /\ items[i].count = items[j].count
                              /\ PidIndex(items[i].pid) < PidIndex(items[j].pid) )
                      => /\ r[items[i].pid] # 0
                         /\ r[items[i].pid] < r[items[j].pid]

\* the trending table ranks two players of one position, and the one with the
\* higher count came second in the input
C14_Witness ==
    /\ last.op = "fetch_sleeper_trending_pos_ranks"
    /\ Len(LastTrendingItems) = 2
    /\ LastTrendingItems[1].count < LastTrendingItems[2].count
    /\ last.ret["WR"][LastTrendingItems[2].pid] = 1
    /\ last.ret["WR"][LastTrendingItems[1].pid] = 2

-----------------------------------------------------------------------------
(* Claims about the identity index and the caches *)

\* the buckets of the index that hold the player id
BucketsOf(map, pid) ==
    {i \in 1..Len(map.name_to_ids) : pid \in Range(map.name_to_ids[i].ids)}

\* C15: after _fetch_sleeper_players built the index from a successful
\* response, every player id of the response is in exactly one bucket of
\* name_to_ids, the bucket of its normalized name, also when the name
\* normalizes to the empty string or the player has no full name.
C15_EveryIdInOneBucket ==
    ( /\ last.op = "fetch_sleeper_players"
      /\ last.asked
      /\ last.resp.kind = "ok" )
    => \A i \in 1..Len(last.resp.data) :
          LET p  == last.resp.data[i]
              bs == BucketsOf(sleeper_players.map, p.pid)
          IN  /\ Cardinality(bs) = 1
              /\ \A b \in bs :
                    sleeper_players.map.name_to_ids[b].name = NormalizeName(p.full_name)

\* C16: on one puller the players endpoint is requested at most once: the
\* first call of _fetch_sleeper_players caches what it got, whether the
\* request succeeded, met another status than 200 or raised, and every later
\* call sends no request and leaves the cached value as it is.
C16_PlayersRequestedOnce ==
    [][ /\ players_requests' <= 1
        /\ last'.op = "fetch_sleeper_players" => sleeper_players'.cached
        /\ (sleeper_players.cached /\ last'.op # "init") =>
              /\ sleeper_players' = sleeper_players
              /\ players_requests' = players_requests ]_vars

\* the one request failed, and a later call of _fetch_sleeper_players
\* returned the cached empty map without asking
C16_Witness ==
    /\ last.op = "fetch_sleeper_players"
    /\ ~last.asked
    /\ players_requests = 1
    /\ sleeper_players.cached
    /\ sleeper_players.map = EmptyPlayersMap

\* C17: in one pull_all_standings run the Yahoo table is built once, before
\* the first roster is serialized, and no later step of the run changes it;
\* serialize_roster only replaces an unset table by an empty one.
C17_YahooTableBuiltOncePerPull ==
    [][ /\ (pull'.n = pull.n + 1 /\ ~pull'.aborted) =>
              /\ yahoo_pos_ranks'.isset
              /\ yahoo_pos_ranks'.ranks =
                    IF pull'.build_failed THEN EmptyYahooTable ELSE YahooPosRanks(league')
              /\ pull'.returned = <<>>
              /\ pull'.next = 1
        /\ (pull.phase = "teams" /\ pull'.n = pull.n) => yahoo_pos_ranks' = yahoo_pos_ranks
        /\ last'.op = "serialize_roster" =>
              \/ yahoo_pos_ranks' = yahoo_pos_ranks
              \/ /\ ~yahoo_pos_ranks.isset
                 /\ yahoo_pos_ranks' = [isset |-> TRUE, ranks |-> EmptyYahooTable] ]_vars

\* a run built a table with ranks and has serialized both teams' rosters
\* from it, an entry carrying rank 1
C17_Witness ==
    /\ pull.phase = "teams"
    /\ pull.next = 3
    /\ Len(pull.returned) = 2
    /\ HasRanks(yahoo_pos_ranks.ranks["WR"])
    /\ yahoo_pos_ranks.ranks = YahooPosRanks(league)
    /\ \E t \in 1..2 : \E i \in 1..Len(pull.returned[t].roster) :
          pull.returned[t].roster[i].pos_rank = 1

-----------------------------------------------------------------------------
(* Claims about failures *)

\* every entry of the roster carries pos_rank None
NoPosRank(roster) == \A i \in 1..Len(roster) : roster[i].pos_rank = 0

KeptPlace(faults, k) ==
    CHOOSE i \in DOMAIN faults :
        /\ faults[i] # "entry"
        /\ Cardinality({j \in 1..i : faults[j] # "entry"}) = k

\* C20: serialize_roster does not raise: a player whose rank lookup fails is
\* appended with pos_rank none, a player whose entry fails is left out, and
\* the other players are serialized in the order of the roster.
C20_SerializeRosterDropsOnlyFaulty ==
    last.op = "serialize_roster" =>
        LET kept == {i \in DOMAIN last.faults : last.faults[i] # "entry"}
        IN  /\ Len(last.roster) = Cardinality(kept)
            /\ \A k \in 1..Len(last.roster) :
                  LET i == KeptPlace(last.faults, k)
                      p == last.players[i]
                  IN  /\ last.roster[k].name = p.name
                      /\ last.roster[k].display_position = p.display_position
                      /\ last.roster[k].editorial_team_abbr = p.team
                      /\ last.roster[k].pos_rank =
                            IF last.faults[i] = "rank" THEN 0
                            ELSE LookupYahooPosRank(yahoo_pos_ranks, p)

\* a roster of two ranked players is serialized: the entry of the first
\* raises, the lookup of the second raises, and the second is the roster
C20_Witness ==
    /\ last.op = "serialize_roster"
    /\ Len(last.players) = 2
    /\ last.faults = <<"entry", "rank">>
    /\ \A i \in 1..2 : LookupYahooPosRank(yahoo_pos_ranks, last.players[i]) > 0
    /\ Len(last.roster) = 1
    /\ last.roster[1].name = last.players[2].name
    /\ last.roster[1].pos_rank = 0


\* a player record with a name and a position
WellFormed(p) == p.name # <<>> /\ EntryPos(p.display_position) # ""

\* the league without the records that lack a name or a position
WellFormedOnly(lg) ==
    [lg EXCEPT !.teams = [t \in 1..Len(lg.teams) |-> SelectSeq(lg.teams[t], WellFormed)]]

\* C21: while the Yahoo table is built, a player record without a name or
\* without a position contributes no entry and does not stop the build: the
\* keys of every position's table are the normalized names of the well-formed
\* players of that position, and the table is the one built from the
\* well-formed players alone.
C21_MalformedPlayersSkipped ==
    (last.op = "build_yahoo_pos_ranks" /\ league.weeks > 0) =>
        /\ \A pos \in TablePositions :
              RankedKeys(last.ret[pos]) =
                  {NormalizeName(p.name) :
                      p \in {q \in Range(AllLeaguePlayers(league)) :
                                WellFormed(q) /\ EntryPos(q.display_position) = pos}}
        /\ last.ret = YahooPosRanks(WellFormedOnly(league))

\* a table was built from a league whose first roster holds a record without
\* a name or without a position and whose second roster holds a well-formed
\* player, who is ranked first at the position
C21_Witness ==
    /\ last.op = "build_yahoo_pos_ranks"
    /\ league.weeks > 0
    /\ Len(league.teams[1]) = 1
    /\ Len(league.teams[2]) = 1
    /\ ~WellFormed(league.teams[1][1])
    /\ WellFormed(league.teams[2][1])
    /\ LET p == league.teams[2][1]
       IN  last.ret[EntryPos(p.display_position)][NormalizeName(p.name)] = 1


\* C22: the fuzzy step never makes a matcher fail: when the entry's name has
\* no exact bucket and the identity index is empty, or the fuzzy library is
\* not there, or extractOne raises, the three matchers return none.
C22_FuzzyFailureIsNoMatch ==
    ( /\ Resolved
      /\ Bucket(sleeper_players.map, NormalizeName(last.entry.name)) = <<>>
      /\ \/ sleeper_players.map.name_to_ids = <<>>
         \/ ~imports_ok
         \/ last.fz = "raise" )
    => /\ last.adp = 0
       /\ last.trending = 0
       /\ last.composite = 0

\* extractOne raised for an entry without exact bucket whose name is close
\* enough to a key of the index, while both tables rank the entry's position:
\* the matchers returned none
C22_Witness ==
    /\ Resolved
    /\ imports_ok
    /\ last.fz = "raise"
    /\ last.entry.name # <<>>
    /\ Bucket(sleeper_players.map, NormalizeName(last.entry.name)) = <<>>
    /\ ~NoFuzzyMatch(NormalizeName(last.entry.name))
    /\ HasRanks(RankMapOf(sleeper_adp_pos_ranks, EntryPos(last.entry.display_position)))
    /\ HasRanks(RankMapOf(sleeper_pos_ranks, EntryPos(last.entry.display_position)))
    /\ last.adp = 0
    /\ last.trending = 0
    /\ last.composite = 0

-----------------------------------------------------------------------------
(* Claims about the normalizers *)

\* C23: _normalize_name is idempotent: applied to one of its results, it
\* returns that result.
C23_NormalizeNameIdempotent ==
    [][ (last.op = "normalize_name" /\ last'.op = "normalize_name") =>
            /\ last'.arg = last.s
            /\ last'.s = last.s ]_vars

\* _normalize_name was applied to the result of a call that removed a suffix
\* token and a disallowed character and left text
C23_Witness ==
    /\ last.op = "normalize_name"
    /\ last.s # <<>>
    /\ last.arg = last.s
    /\ last.s = NormalizeName(<<"'", "a", " ", "v">>)

\* C24: appending a generational suffix token, in any letter case and with or
\* without a period, to a name does not change its normalized form.
C24_SuffixDoesNotChangeName ==
    [][ (last.op = "suffixed" /\ last'.op = "normalize_name") =>
            last'.s = NormalizeName(last.arg) ]_vars

\* a name with text and a suffix with a capital and a period were normalized
\* to the normalized name
C24_Witness ==
    /\ last.op = "normalize_name"
    /\ last.arg = <<"a", "-", "R", " ", "J", "r", ".">>
    /\ last.s = <<"a", "-", "r">>


\* the alias codes in their letter cases, with the canonical code of each
AliasForms ==
    { <<{"WSH", "wsh", "Wsh"}, "WAS">>, <<{"JAX", "jax"}, "JAC">>,
      <<{"LA", "la", "La"}, "LAR">>, <<{"OAK", "oak"}, "LV">>,
      <<{"STL", "stl"}, "LAR">>, <<{"SD", "sd", "sD"}, "LAC">> }

\* the other codes in their letter cases, with the uppercase form of each
OtherForms ==
    { <<{"WAS", "was"}, "WAS">>, <<{"JAC"}, "JAC">>, <<{"LAR", "lar"}, "LAR">>,
      <<{"LV"}, "LV">>, <<{"LAC"}, "LAC">>, <<{"DAL", "dal"}, "DAL">>,
      <<{"KC", "kc"}, "KC">>, <<{""}, "">> }

\* C25: _normalize_team maps an alias code in any letter case to its canonical
\* code, any other code to its uppercase form and the empty code to the empty
\* string, and applied to one of its results it returns that result.
C25_NormalizeTeamCanonical ==
    [][ last'.op = "normalize_team" =>
            /\ \E f \in AliasForms \cup OtherForms :
                  last'.arg \in f[1] /\ last'.code = f[2]
            /\ last.op = "normalize_team" =>
                  /\ last'.arg = last.code
                  /\ last'.code = last.code ]_vars

\* _normalize_team was applied to a canonical code, the one of the aliases LA
\* and STL, and returned it
C25_Witness ==
    /\ last.op = "normalize_team"
    /\ last.arg = "LAR"
    /\ last.code = "LAR"

-----------------------------------------------------------------------------
(* Claims about the pull as a whole *)

\* what the three matchers return for the entry of player p, the players
\* endpoint answering resp if it is asked and extractOne behaving as fz
MatcherResults(p, fz, resp) ==
    LET entry == RosterEntry(yahoo_pos_ranks, p, "ok")
        map   == FetchedPlayers(sleeper_players, imports_ok, resp).map
    IN  { MatchSleeperAdpRank(sleeper_adp_pos_ranks, map, imports_ok, entry, fz),
          MatchSleeperTrendingRank(sleeper_pos_ranks, map, imports_ok, entry, fz),
          MatchSleeperCompositeRank(sleeper_adp_pos_ranks, sleeper_pos_ranks, map,
                                    imports_ok, entry, fz) }

\* C26: in every state the public operations reach, the Sleeper ADP and
\* trending caches are unset, and the three matchers return none for every
\* roster entry.
C26_SleeperCachesStayUnset ==
    /\ ~sleeper_adp_pos_ranks.isset
    /\ ~sleeper_pos_ranks.isset
    /\ \A p \in PullPlayers, fz \in {"ok", "raise"} :
          \A resp \in AnswersOf(PullPlayersResponses) :
              MatcherResults(p, fz, resp) = {0}

\* a run has returned a roster with a player whose name has a bucket in the
\* identity index the puller holds, and the caches are unset
C26_Witness ==
    /\ pull.phase = "done"
    /\ ~pull.aborted
    /\ ~sleeper_adp_pos_ranks.isset
    /\ ~sleeper_pos_ranks.isset
    /\ \E t \in 1..Len(pull.returned) :
          /\ pull.returned[t].roster # <<>>
          /\ Bucket(sleeper_players.map, NormalizeName(pull.returned[t].roster[1].name)) # <<>>
          /\ pull.returned[t].roster[1].pos_rank > 0


\* the rank _lookup_yahoo_pos_rank finds for the entry of player p
LookedUp(p) ==
    LookupYahooPosRank(yahoo_pos_ranks,
                       [name |-> p.name, display_position |-> p.display_position])

\* the players of the league that have a name and a position
CountedPlayers == {p \in Range(AllLeaguePlayers(league)) : WellFormed(p)}

\* the number of keys of the table of p's position
TableSize(p) ==
    Cardinality(RankedKeys(yahoo_pos_ranks.ranks[EntryPos(p.display_position)]))

\* C27: the builder and the lookup agree: with the table built from a league
\* with a completed week, every player of the league that has a name and a
\* position is looked up to a rank between 1 and the size of its position's
\* table, two players with one normalized name and one position get the same
\* rank, and serialize_roster attaches the rank the lookup finds.
C27_BuilderAndLookupAgree ==
    /\ (last.op = "build_yahoo_pos_ranks" /\ league.weeks > 0) =>
          /\ \A p \in CountedPlayers : LookedUp(p) \in 1..TableSize(p)
          /\ \A p, q \in CountedPlayers :
                ( /\ NormalizeName(p.name) = NormalizeName(q.name)
                  /\ EntryPos(p.display_position) = EntryPos(q.display_position) )
                => LookedUp(p) = LookedUp(q)
    /\ (last.op = "serialize_roster" /\ yahoo_pos_ranks.isset /\ league.weeks > 0) =>
          \A i \in 1..Len(last.players) :
              (\A j \in 1..i : last.faults[j] = "ok") =>
                  /\ last.roster[i].pos_rank = LookedUp(last.players[i])
                  /\ WellFormed(last.players[i]) =>
                        last.roster[i].pos_rank \in 1..TableSize(last.players[i])

\* the roster of a player was serialized after a build: the league holds a
\* second player of its normalized name and position, both have rank 1, and
\* the entry carries it
C27_Witness ==
    /\ last.op = "serialize_roster"
    /\ league.weeks > 0
    /\ Len(last.players) = 1
    /\ last.faults[1] = "ok"
    /\ last.roster[1].pos_rank = 1
    /\ \E q \in CountedPlayers :
          /\ q # last.players[1]
          /\ NormalizeName(q.name) = NormalizeName(last.players[1].name)
          /\ EntryPos(q.display_position) = EntryPos(last.players[1].display_position)
          /\ LookedUp(q) = 1


\* the teams of league_data["teams"], in the order of the dict
ReturnedTeams(run) == {run.returned[k].team : k \in 1..Len(run.returned)}

\* C28: pull_all_standings returns none when the connection fails or the team
\* list cannot be read; otherwise the result holds every team but those whose
\* pull_team_standings_data returned none, ordered by win percentage
\* descending, then points-for descending.
C28_TeamsReturnedInOrder ==
    [][ last'.op = "pull_all_standings" =>
            /\ last'.step = "start" =>
                  /\ pull'.aborted = (~last'.connected \/ ~last'.teams_read)
                  /\ pull'.aborted => (pull'.phase = "done" /\ pull'.returned = <<>>)
            /\ last'.step = "return" =>
                  /\ ~pull'.aborted
                  /\ pull'.phase = "done"
                  /\ ReturnedTeams(pull') = (1..Len(league.teams)) \ pull.skipped
                  /\ Len(pull'.returned) = Cardinality(ReturnedTeams(pull'))
                  /\ \A i, j \in 1..Len(pull'.returned) :
                        i < j => ~TeamBefore(pull'.returned[j], pull'.returned[i]) ]_vars

-----------------------------------------------------------------------------
(* Claims about the Sleeper sources *)

\* the records the responses of the first k candidate URLs carry
RECURSIVE AdpCollected(_, _)
AdpCollected(urls, k) ==
    IF k = 0 THEN 0
    ELSE AdpCollected(urls, k - 1)
         + (IF urls[k].kind = "ok"
            THEN Len(ValidAdpItems(urls[k])) + urls[k].filler ELSE 0)

\* the URLs requested: up to the first one with which the records are enough
AdpRequested(urls) ==
    LET enough == {k \in 1..Len(urls) : AdpCollected(urls, k) >= AdpEnough}
    IN  IF enough = {} THEN Len(urls) ELSE SetMin(enough)

\* C29: a Sleeper source that is unreachable yields a table without ranks:
\* _fetch_sleeper_adp_pos_ranks requests its candidate URLs in order up to the
\* one with which 300 records are collected, and ranks the records of every
\* URL that answered among them, whatever URLs failed before it;
\* _fetch_sleeper_trending_pos_ranks ranks the items of the endpoint that
\* answers when the other one answers with another status than 200, and
\* returns the empty table when a request raises.
C29_UnreachableSourcesGiveNoRanks ==
    /\ last.op = "fetch_sleeper_adp_pos_ranks" =>
          /\ last.requested = IF imports_ok THEN AdpRequested(last.urls) ELSE 0
          /\ (\A i \in 1..Len(last.urls) : last.urls[i].kind \in {"raise", "status"})
                => last.ret = EmptySleeperTable
          /\ ~imports_ok => last.ret = EmptySleeperTable
          /\ imports_ok =>
                \A i \in 1..last.requested :
                    \A k \in 1..Len(ValidAdpItems(last.urls[i])) :
                        LET pid == ValidAdpItems(last.urls[i])[k].pid
                            pos == BuilderPos(sleeper_players.map, pid)
                        IN  pos # "" => last.ret[pos][pid] # 0
    /\ last.op = "fetch_sleeper_trending_pos_ranks" =>
          /\ ( \/ ~imports_ok
               \/ \E i \in 1..2 : last.endpoints[i].kind = "raise"
               \/ \A i \in 1..2 : last.endpoints[i].kind = "status" )
                => last.ret = EmptySleeperTable
          /\ ( /\ imports_ok
               /\ \A i \in 1..2 : last.endpoints[i].kind # "raise" ) =>
                \A pos \in TrendingPositions :
                    RankedKeys(last.ret[pos]) =
                        { it.pid : it \in
                            { x \in UNION {Range(last.endpoints[i].items) :
                                              i \in {j \in 1..2 : last.endpoints[j].kind = "ok"}} :
                                /\ sleeper_players.map.id_to_player[x.pid].present
                                /\ BuilderPos(sleeper_players.map, x.pid) = pos } }

\* the first candidate URL failed and the second answered with the record of
\* a player with a position: all three URLs were requested and the player is
\* ranked
C29_Witness ==
    /\ last.op = "fetch_sleeper_adp_pos_ranks"
    /\ imports_ok
    /\ last.urls[1].kind \in {"raise", "status"}
    /\ last.urls[2].kind = "ok"
    /\ last.requested = 3
    /\ \E k \in 1..Len(ValidAdpItems(last.urls[2])) :
          LET pid == ValidAdpItems(last.urls[2])[k].pid
          IN  /\ BuilderPos(sleeper_players.map, pid) # ""
              /\ last.ret[BuilderPos(sleeper_players.map, pid)][pid] = 1

=============================================================================
